---- MODULE Spec2Model ----
(***************************************************************************)
(* A model of the control core of AWX:                                     *)
(*   - awx/main/tasks/callback.py : RunnerCallback, the per-job event      *)
(*     pipeline with its websocket throttle (specification SpecCallback);  *)
(*   - awx/main/tasks/system.py   : apply_cluster_membership_policies      *)
(*     (specifications SpecPolicy, SpecPolicyLock) and                     *)
(*     cluster_node_heartbeat (specifications SpecHeartbeat,               *)
(*     SpecHeartbeatRace).                                                 *)
(* Time is counted in ticks; TicksPerSec ticks make one second.            *)
(***************************************************************************)
EXTENDS Integers, Sequences, FiniteSets, TLC

VARIABLES
    \* ---- RunnerCallback (callback.py) ----
    kind,                     \* which RunnerCallback class / job kind this pipeline serves
    maxlen,                   \* recent_event_timings.maxlen = settings.MAX_WEBSOCKET_EVENT_RATE
    recent_event_timings,     \* the deque of emission timestamps
    cpu_clock,                \* the value time.time() returns
    event_ct,                 \* self.event_ct
    wrapup_event_dispatched,  \* self.wrapup_event_dispatched
    extra_update_fields,      \* self.extra_update_fields, a function from staged keys to values
    end_line,                 \* RunnerCallbackForInventoryUpdate.end_line
    cb_pc,                    \* "streaming" until finished_callback has run, then "finished"
    dispatch_ct,              \* number of calls of dispatcher.dispatch so far
    final_counter,            \* final_counter of the EOF event sent by finished_callback
    sent,                     \* times, within the last second, of the non-MINIMAL events
                              \* dispatched without skip_websocket_message
    last                      \* what the last callback invocation was given and did

VARIABLES
    \* ---- Instance and InstanceGroup records, apply_cluster_membership_policies (system.py) ----
    node_type,                   \* Instance.node_type of every instance
    managed_by_policy,           \* Instance.managed_by_policy
    policy_instance_list,        \* InstanceGroup.policy_instance_list, a list of hostnames
    policy_instance_minimum,     \* InstanceGroup.policy_instance_minimum
    policy_instance_percentage,  \* InstanceGroup.policy_instance_percentage
    is_container_group,          \* InstanceGroup.is_container_group
    ig_instances,                \* InstanceGroup.instances, the stored membership
    group_order,                 \* the order in which the store returns the groups
    policy_lock,                 \* holder of the advisory lock 'cluster_policy_lock' (0: free)
    pol_pc,                      \* where each caller of apply_cluster_membership_policies is
    pol_contended,               \* whether the lock was held by another when the call was made
    pol_runs,                    \* completed runs since the store last changed (counted to 2)
    first_changed,               \* whether the first of these runs added or removed an instance
    last_added,                  \* instances_to_add applied by the latest run, per group
    last_removed                 \* instances_to_remove applied by the latest run, per group

VARIABLES
    \* ---- cluster_node_heartbeat (system.py) ----
    hb_clock,         \* the value now() returns
    settings,         \* settings.DEBUG and settings.AWX_AUTO_DEPROVISION_INSTANCES
    instances,        \* the Instance rows of the store
    link_state,       \* InstanceLink.link_state of every link
    jobs,             \* the jobs of the store: their node, status and start time
    inspect_lock,     \* holder of 'inspect_execution_and_hop_nodes_lock' (0: free)
    hb_pc,            \* where the heartbeat task of each node is
    hb_cycles,        \* how many cycles each node has begun
    nowtime,          \* nowtime of the node's cycle
    instance_list,    \* the instance objects the node's cycle loaded, by hostname
    acquired,         \* what advisory_lock(..., wait=False) yielded to the cycle
    cycle             \* what the node's cycle has done so far

VARIABLES
    \* ---- calls of the reaper on lost nodes (system.py) ----
    reap_calls        \* the calls made so far: by whom, for which node, the jobs they failed

VARIABLES
    \* ---- RunnerCallback.artifacts_handler (callback.py) ----
    artifacts_processed,   \* self.artifacts_processed
    event_queries,         \* the EventQuery rows of the store: <<fqcn, collection_version>>
    artifacts_last         \* what the last call of artifacts_handler was given and did

VARIABLES
    \* ---- inspect_established_receptor_connections on its own (system.py) ----
    inspected              \* the last call: the costs it was given, the link states it found

VARIABLES
    \* ---- awx_receptor_workunit_reaper (system.py) ----
    receptor               \* the two settings, the jobs, receptor's work list, the last run's commands

cbVars == <<kind, maxlen, recent_event_timings, cpu_clock, event_ct, wrapup_event_dispatched,
            extra_update_fields, end_line, cb_pc, dispatch_ct, final_counter, sent, last>>

cfgVars == <<node_type, managed_by_policy, policy_instance_list, policy_instance_minimum,
             policy_instance_percentage, is_container_group>>

polVars == <<cfgVars, ig_instances, group_order, policy_lock, pol_pc, pol_contended, pol_runs,
             first_changed, last_added, last_removed>>

hbVars == <<hb_clock, settings, instances, link_state, jobs, inspect_lock, hb_pc, hb_cycles,
            nowtime, instance_list, acquired, cycle>>

rpVars == <<reap_calls>>

afVars == <<artifacts_processed, event_queries, artifacts_last>>

lkVars == <<inspected>>
wuVars == <<receptor>>

vars == <<cbVars, polVars, hbVars, rpVars, afVars, lkVars, wuVars>>

\* What the callbacks, the policy task and the heartbeat leave alone
notCbVars == <<polVars, hbVars, rpVars, afVars, lkVars, wuVars>>
notPolVars == <<cbVars, hbVars, rpVars, afVars, lkVars, wuVars>>
notHbVars == <<cbVars, polVars, rpVars, afVars, lkVars, wuVars>>

-----------------------------------------------------------------------------
(* The 1.0 second of the throttle's tests, in ticks *)
TicksPerSec == 4

(* Bounds of the model *)
MaxRate == 2
MaxTime == 5
MaxEvents == 4
MaxLine == 1
NumNodes == 3
MaxMin == 2
NumPolicyProcs == 2
NumJobs == 3
NumUnitJobs == 2
MaxReaperRuns == 2
MaxCycles == 1
MaxTicks == 1
NumHeartbeatProcs == 2
MaxReaps == 2
MaxArtifactCalls == 1

-----------------------------------------------------------------------------
(* RunnerCallback *)

MINIMAL_EVENTS == {"playbook_on_play_start", "playbook_on_task_start", "playbook_on_stats", "EOF"}

Kinds == {"job", "project_update", "inventory_update", "ad_hoc_command", "system_job"}

\* instance.event_class.WRAPUP_EVENT of the job kind
wrapup_event_type(k) == IF k = "job" THEN "playbook_on_stats" ELSE "EOF"

EventTypes == {"keepalive", "playbook_on_stats", "runner_on_ok"}

\* The fields of a raw event that event_handler reads.  has_lines says whether the
\* keys start_line and end_line are present; stdout_empty whether stdout == ''.
AllEvents == [event : EventTypes, stdout_empty : BOOLEAN, has_lines : BOOLEAN,
              start_line : {0}, end_line : 0..MaxLine, artifact_data : {"", "A"}]

\* One representative of every event the handler can tell apart: an event without
\* line keys has no line numbers, a keepalive carries nothing else, and artifact
\* data (read after the throttle, independently of it) rides on events with output.
Events == {e \in AllEvents :
              /\ ~e.has_lines => e.end_line = 0
              /\ e.event = "keepalive" => e.artifact_data = "" /\ ~e.stdout_empty
              /\ e.artifact_data # "" => e.has_lines /\ ~e.stdout_empty}

\* The emission times of s that lie within one second before t
Recent(s, t) == SelectSeq(s, LAMBDA x : x >= t - TicksPerSec)

\* What a callback invocation did: the event type it was given, how it ended
\* ("returned", "ignored" for the keepalive early return, "raised"), how many
\* times it called dispatcher.dispatch and whether it set skip_websocket_message.
Result(ev, outcome, n, skip) == [event |-> ev, outcome |-> outcome, dispatched |-> n, skip |-> skip]

\* deque.append on a deque(maxlen=n)
DequeAppend(q, x, n) ==
    IF n = 0 THEN q
    ELSE IF Len(q) = n THEN Append(Tail(q), x)
    ELSE Append(q, x)

\* ShouldEmit with the newest-timestamp test off by one (>= for >)
ShouldEmitGapInclusive(ev, q, n, t) ==
    IF ev.event \in MINIMAL_EVENTS THEN TRUE
    ELSE IF ev.stdout_empty /\ ev.start_line = ev.end_line THEN FALSE
    ELSE \/ t - q[1] > TicksPerSec
         \/ n * (t - q[Len(q)]) >= TicksPerSec
         \/ Len(q) # n

\* should_emit of event_handler, for a non-empty deque q
\* A throttle that puts every event type to the tests
ShouldEmitNoMinimalEvents(ev, q, n, t) ==
    IF ev.stdout_empty /\ ev.start_line = ev.end_line THEN FALSE
    ELSE \/ t - q[1] > TicksPerSec
         \/ n * (t - q[Len(q)]) > TicksPerSec
         \/ Len(q) # n

\* A throttle without the test "the queue is not yet full"
ShouldEmitIgnoringFill(ev, q, n, t) ==
    IF ev.event \in MINIMAL_EVENTS THEN TRUE
    ELSE IF ev.stdout_empty /\ ev.start_line = ev.end_line THEN FALSE
    ELSE \/ t - q[1] > TicksPerSec
         \/ n * (t - q[Len(q)]) > TicksPerSec

ShouldEmit(ev, q, n, t) ==
    IF ev.event \in MINIMAL_EVENTS THEN TRUE
    ELSE IF ev.stdout_empty /\ ev.start_line = ev.end_line THEN FALSE
    ELSE \/ t - q[1] > TicksPerSec
         \/ n * (t - q[Len(q)]) > TicksPerSec
         \/ Len(q) # n

\* event_handler raises KeyError on event_data['start_line'] / ['end_line']
ThrottleRaises(ev, q) ==
    /\ Len(q) > 0
    /\ ev.event \notin MINIMAL_EVENTS
    /\ ev.stdout_empty
    /\ ~ev.has_lines

\* Texts are sequences of words; NewLine is the '\n' that joins two messages
NewLine == "\n"

\* str(a) in b: a occurs in b as a run of consecutive words
IsInfix(a, b) ==
    \E i \in 0..(Len(b) - Len(a)) : SubSeq(b, i + 1, i + Len(a)) = a

\* a delay_update that overwrites whatever key it is given
DelayUpdateOverwrites(fields, key, value) ==
    [k \in DOMAIN fields \cup {key} |-> IF k = key THEN value ELSE fields[k]]

\* delay_update(**{key: value}) with skip_if_already_set=False: the fields
\* job_explanation and result_traceback, once staged, are joined with the new
\* message unless the field contains it
delay_update(fields, key, value) ==
    IF key \in DOMAIN fields /\ key \in {"job_explanation", "result_traceback"}
    THEN IF IsInfix(value, fields[key]) THEN fields
         ELSE [fields EXCEPT ![key] = @ \o <<NewLine>> \o value]
    ELSE [k \in DOMAIN fields \cup {key} |-> IF k = key THEN value ELSE fields[k]]

\* RunnerCallback.event_handler(event_data), and the inventory-update variant's
\* wrapper around it; t is what time.time() returns.
event_handler(ev) ==
    LET t == cpu_clock IN
    /\ cb_pc = "streaming"
    /\ event_ct < MaxEvents
    /\ IF kind = "inventory_update" /\ ~ev.has_lines
       THEN \* self.end_line = event_data['end_line'] raises KeyError
            /\ last' = Result(ev.event, "raised", 0, FALSE)
            /\ UNCHANGED <<recent_event_timings, event_ct, wrapup_event_dispatched,
                           extra_update_fields, end_line, dispatch_ct, sent>>
       ELSE
       /\ end_line' = IF kind = "inventory_update" THEN ev.end_line ELSE end_line
       /\ IF ev.event = "keepalive"
          THEN /\ last' = Result(ev.event, "ignored", 0, FALSE)
               /\ UNCHANGED <<recent_event_timings, event_ct, wrapup_event_dispatched,
                              extra_update_fields, dispatch_ct, sent>>
          ELSE IF ThrottleRaises(ev, recent_event_timings)
          THEN /\ last' = Result(ev.event, "raised", 0, FALSE)
               /\ UNCHANGED <<recent_event_timings, event_ct, wrapup_event_dispatched,
                              extra_update_fields, dispatch_ct, sent>>
          ELSE
            LET q == recent_event_timings
                emit == IF Len(q) > 0 THEN ShouldEmit(ev, q, maxlen, t) ELSE TRUE
            IN  /\ recent_event_timings' = IF emit THEN DequeAppend(q, t, maxlen) ELSE q
                /\ wrapup_event_dispatched' =
                       (wrapup_event_dispatched \/ ev.event = wrapup_event_type(kind))
                /\ dispatch_ct' = dispatch_ct + 1
                /\ event_ct' = event_ct + 1
                /\ extra_update_fields' =
                       IF ev.artifact_data # ""
                       THEN delay_update(extra_update_fields, "artifacts", ev.artifact_data)
                       ELSE extra_update_fields
                /\ sent' = IF emit /\ ev.event \notin MINIMAL_EVENTS
                           THEN Append(Recent(sent, t), t) ELSE Recent(sent, t)
                /\ last' = Result(ev.event, "returned", 1, ~emit)
    /\ UNCHANGED <<kind, maxlen, cpu_clock, cb_pc, final_counter, notCbVars>>

\* A finished_callback that sets the wrap-up flag for a job of any kind
FinishedCallbackAlwaysWrapsUp ==
    /\ cb_pc = "streaming"
    /\ cb_pc' = "finished"
    /\ final_counter' = event_ct
    /\ dispatch_ct' = dispatch_ct + 1
    /\ wrapup_event_dispatched' = TRUE
    /\ last' = Result("EOF", "returned", 1, FALSE)
    /\ UNCHANGED <<kind, maxlen, recent_event_timings, cpu_clock, event_ct,
                   extra_update_fields, end_line, sent, notCbVars>>

\* A finished_callback that counts its own EOF event
FinishedCallbackCountsEOF ==
    /\ cb_pc = "streaming"
    /\ cb_pc' = "finished"
    /\ final_counter' = event_ct + 1
    /\ dispatch_ct' = dispatch_ct + 1
    /\ wrapup_event_dispatched' = (wrapup_event_dispatched \/ wrapup_event_type(kind) = "EOF")
    /\ last' = Result("EOF", "returned", 1, FALSE)
    /\ UNCHANGED <<kind, maxlen, recent_event_timings, cpu_clock, event_ct,
                   extra_update_fields, end_line, sent, notCbVars>>

\* RunnerCallback.finished_callback(runner_obj)
finished_callback ==
    /\ cb_pc = "streaming"
    /\ cb_pc' = "finished"
    /\ final_counter' = event_ct
    /\ dispatch_ct' = dispatch_ct + 1
    /\ wrapup_event_dispatched' = (wrapup_event_dispatched \/ wrapup_event_type(kind) = "EOF")
    /\ last' = Result("EOF", "returned", 1, FALSE)
    /\ UNCHANGED <<kind, maxlen, recent_event_timings, cpu_clock, event_ct,
                   extra_update_fields, end_line, sent, notCbVars>>

\* The text whose presence in result_traceback tells of a stale ansible-runner
StaleRunnerSignature == <<"got an unexpected keyword argument">>

\* awx.main.constants.ANSIBLE_RUNNER_NEEDS_UPDATE_MESSAGE
ANSIBLE_RUNNER_NEEDS_UPDATE_MESSAGE == <<"ansible-runner is out of date">>

\* No text: None or ''
NoText == << >>

\* The tracebacks and explanations a status may carry: one message, a longer
\* one that contains it, one with the stale-runner signature
Tracebacks == {NoText, <<"a">>, <<"a", "b">>, <<"TypeError:">> \o StaleRunnerSignature}
Explanations == {NoText, <<"b">>}

\* The status_data the runner hands to status_handler
StatusData ==
    [status : {"starting"}, result_traceback : {NoText}, job_explanation : {NoText}]
    \cup [status : {"error"}, result_traceback : Tracebacks, job_explanation : Explanations]

\* RunnerCallback.status_handler(status_data, runner_config).  On 'starting'
\* the job's args, cwd and env are saved to the job row, which this model
\* does not hold.
status_handler(status_data) ==
    LET staged1 == IF status_data.result_traceback # NoText
                   THEN delay_update(extra_update_fields, "result_traceback",
                                     status_data.result_traceback)
                   ELSE extra_update_fields
        staged2 == IF status_data.job_explanation # NoText
                   THEN delay_update(staged1, "job_explanation", status_data.job_explanation)
                   ELSE staged1
    IN
    /\ extra_update_fields' = IF status_data.status = "error" THEN staged2
                              ELSE extra_update_fields
    /\ last' = Result(status_data.status, "returned", 0, FALSE)
    /\ UNCHANGED <<kind, maxlen, recent_event_timings, cpu_clock, event_ct,
                   wrapup_event_dispatched, end_line, cb_pc, dispatch_ct, final_counter, sent,
                   notCbVars>>

\* RunnerCallback.get_delayed_update_fields(), called for a save of the job's
\* status; what it returns is self.extra_update_fields
get_delayed_update_fields ==
    LET counted == [k \in DOMAIN extra_update_fields \cup {"emitted_events"} |->
                       IF k = "emitted_events" THEN event_ct ELSE extra_update_fields[k]]
        traceback == IF "result_traceback" \in DOMAIN counted
                     THEN counted["result_traceback"] ELSE NoText
    IN
    /\ extra_update_fields' =
           IF IsInfix(StaleRunnerSignature, traceback)
           THEN delay_update(counted, "result_traceback", ANSIBLE_RUNNER_NEEDS_UPDATE_MESSAGE)
           ELSE counted
    /\ last' = Result("get_delayed_update_fields", "returned", 0, FALSE)
    /\ UNCHANGED <<kind, maxlen, recent_event_timings, cpu_clock, event_ct,
                   wrapup_event_dispatched, end_line, cb_pc, dispatch_ct, final_counter, sent,
                   notCbVars>>

\* Time passes between two callbacks
TickCallback ==
    /\ cb_pc = "streaming"
    /\ cpu_clock < MaxTime
    /\ cpu_clock' = cpu_clock + 1
    /\ UNCHANGED <<kind, maxlen, recent_event_timings, event_ct, wrapup_event_dispatched,
                   extra_update_fields, end_line, cb_pc, dispatch_ct, final_counter, sent, last,
                   notCbVars>>

\* ---- artifacts_handler ----

\* The names of the collections a side-channel file may list
Collections == {"c1"}

\* What the file may hold for a collection: "none" no entry; "full" a mapping
\* with version and host_query; "no_query" a mapping without host_query;
\* "string" a string (that contains neither key); "number" a number
EntryKinds == {"none", "full", "no_query", "string", "number"}

\* The version a "full" entry carries
EntryVersion == "1"

NoEntries == [c \in Collections |-> "none"]

\* What json.load may return.  shape "other" is any JSON value that is not an
\* object; installed_collections is "absent" (no such key), "other" (a value
\* that is not an object) or "object", and entries are its entries then.
JsonValues ==
    {[shape |-> "other", installed_collections |-> "absent", entries |-> NoEntries,
      ansible_version |-> "absent"]}
    \cup [shape : {"object"}, installed_collections : {"absent", "other"},
          entries : {NoEntries}, ansible_version : {"absent", "2.15"}]
    \cup [shape : {"object"}, installed_collections : {"object"},
          entries : [Collections -> EntryKinds], ansible_version : {"absent", "2.15"}]

NoJson == [shape |-> "none", installed_collections |-> "absent", entries |-> NoEntries,
           ansible_version |-> "absent"]

\* The artifact directories artifacts_handler may be given, with the state of the
\* feature flag: the file ansible_data.json is absent, cannot be opened, holds
\* no JSON, or holds a JSON value
ArtifactDirs ==
    [flag : BOOLEAN, file : {"absent", "unreadable", "unparseable"}, contents : {NoJson}]
    \cup [flag : BOOLEAN, file : {"parsed"}, contents : JsonValues]

\* A loader that does not ask for the feature flag
TryLoadIgnoringFlag(dir) == dir.file = "parsed"

\* try_load_query_file(artifact_dir): the success flag; the contents returned
\* with it are dir.contents
try_load_query_file(dir) == dir.flag /\ dir.file = "parsed"

\* collect_queries raises: the contents are not an object (TypeError on the
\* subscript), installed_collections is not an object (AttributeError on
\* .items()), or an entry does not support `in` (TypeError)
CollectRaises(contents) ==
    \/ contents.shape # "object"
    \/ contents.installed_collections = "other"
    \/ \E c \in Collections : contents.entries[c] = "number"

\* collect_queries(query_file_contents), when it does not raise: the collections
\* whose entry has host_query and version
collect_queries(contents) ==
    {c \in Collections : contents.entries[c] = "full"}

NoArtifactsCall ==
    [outcome |-> "none", calls |-> 0,
     dir |-> [flag |-> FALSE, file |-> "absent", contents |-> NoJson], before |-> << >>]

\* RunnerCallback.artifacts_handler(artifact_dir)
artifacts_handler(dir) ==
    LET contents == dir.contents
        staged0 == delay_update(extra_update_fields, "event_queries_processed", FALSE)
        staged1 == IF contents.installed_collections # "absent"
                   THEN delay_update(staged0, "installed_collections", contents.entries)
                   ELSE staged0
        staged2 == IF contents.ansible_version # "absent"
                   THEN delay_update(staged1, "ansible_version", contents.ansible_version)
                   ELSE staged1
        done(outcome) == [outcome |-> outcome, calls |-> artifacts_last.calls + 1,
                          dir |-> dir, before |-> extra_update_fields]
    IN
    /\ artifacts_last.calls < MaxArtifactCalls
    /\ IF ~try_load_query_file(dir)
       THEN /\ artifacts_processed' = TRUE
            /\ artifacts_last' = done("returned")
            /\ UNCHANGED <<extra_update_fields, event_queries>>
       ELSE IF CollectRaises(contents)
       THEN \* the exception leaves the handler before line 304
            /\ extra_update_fields' = staged0
            /\ artifacts_last' = done("raised")
            /\ UNCHANGED <<artifacts_processed, event_queries>>
       ELSE \* validate_unique() raises ValidationError for a row that exists
            /\ event_queries' = event_queries \cup
                                    {<<c, EntryVersion>> : c \in collect_queries(contents)}
            /\ extra_update_fields' = staged2
            /\ artifacts_processed' = TRUE
            /\ artifacts_last' = done("returned")
    /\ UNCHANGED <<kind, maxlen, recent_event_timings, cpu_clock, event_ct,
                   wrapup_event_dispatched, end_line, cb_pc, dispatch_ct, final_counter,
                   sent, last, polVars, hbVars, rpVars, lkVars, wuVars>>

\* RunnerCallback.__init__ for job kind k and configured rate n
NewCallback(k, n) ==
    /\ kind = k
    /\ maxlen = n
    /\ recent_event_timings = <<>>
    /\ cpu_clock = 0
    /\ event_ct = 0
    /\ wrapup_event_dispatched = FALSE
    /\ extra_update_fields = << >>
    /\ end_line = 0
    /\ cb_pc = "streaming"
    /\ dispatch_ct = 0
    /\ final_counter = 0
    /\ sent = <<>>
    /\ last = Result("none", "none", 0, FALSE)
    /\ artifacts_processed = FALSE
    /\ artifacts_last = NoArtifactsCall

\* Every job kind and every configured rate
InitCallback == \E k \in Kinds, n \in 0..MaxRate : NewCallback(k, n)

\* One fixed pipeline, for the specifications that are not about the callbacks
QuietCallback == NewCallback("job", 1)

-----------------------------------------------------------------------------
(* Instance, InstanceGroup and apply_cluster_membership_policies *)

Nodes == 1..NumNodes

\* An instance's hostname is its id; UnknownHost is a hostname of no instance.
UnknownHost == 0

NodeTypes == {"control", "execution", "hybrid", "hop"}

\* settings.DEFAULT_CONTROL_PLANE_QUEUE_NAME and one other group name
Groups == {"controlplane", "default"}

Range(f) == {f[i] : i \in DOMAIN f}

\* No sort at all: the sequence as it came
Unsorted(seq, key) == seq

\* sorted(seq, key=...): Python's sort is stable.  key is a function on the
\* (distinct) elements of seq.
StableSort(seq, key) ==
    LET before(i, j) == key[seq[i]] < key[seq[j]] \/ (key[seq[i]] = key[seq[j]] /\ i < j)
        rank(j) == 1 + Cardinality({i \in 1..Len(seq) : before(i, j)})
    IN  [r \in 1..Len(seq) |-> seq[CHOOSE j \in 1..Len(seq) : rank(j) = r]]

\* The ascending sequence of the numbers of a set: order_by('id')
RECURSIVE AscendingSeq(_)
AscendingSeq(S) ==
    IF S = {} THEN << >>
    ELSE LET m == CHOOSE x \in S : \A y \in S : x <= y
         IN  <<m>> \o AscendingSeq(S \ {m})

\* Instance.objects.order_by('id'), hop nodes included
all_instances_with_hop == AscendingSeq(Nodes)

\* all_instances: Instance.objects.exclude(node_type='hop').order_by('id')
all_instances == AscendingSeq({n \in Nodes : node_type[n] # "hop"})

\* actual_instances: the instances of all_instances with managed_by_policy
actual_instances == SelectSeq(all_instances, LAMBDA n : managed_by_policy[n])

\* exclude_type of a group
exclude_type(g) == IF g = "controlplane" THEN "execution" ELSE "control"

\* Node(obj=i, groups=[]) with the groups seeded from the stored membership
GroupCountsFromPrior == [n \in Nodes |-> Cardinality({g \in Groups : n \in ig_instances[g]})]

\* len(i.groups) of every Node(obj=i, groups=[]) when the minimum pass starts
InitialGroupCounts == [n \in Nodes |-> 0]

\* A minimum pass that does not skip the instances already in the group
RECURSIVE MinLoopAddsMembersAgain(_, _, _, _, _)
MinLoopAddsMembersAgain(g, cand, j, members, cnt) ==
    IF j > Len(cand) THEN [members |-> members, cnt |-> cnt]
    ELSE LET i == cand[j] IN
         IF node_type[i] = exclude_type(g)
         THEN MinLoopAddsMembersAgain(g, cand, j + 1, members, cnt)
         ELSE IF Len(members) >= policy_instance_minimum[g] THEN [members |-> members, cnt |-> cnt]
         ELSE MinLoopAddsMembersAgain(g, cand, j + 1, Append(members, i),
                                      [cnt EXCEPT ![i] = @ + 1])

\* A minimum loop that stops one member short of the minimum
RECURSIVE MinLoopStopsOneShort(_, _, _, _, _)
MinLoopStopsOneShort(g, cand, j, members, cnt) ==
    IF j > Len(cand) THEN [members |-> members, cnt |-> cnt]
    ELSE LET i == cand[j] IN
         IF node_type[i] = exclude_type(g) THEN MinLoopStopsOneShort(g, cand, j + 1, members, cnt)
         ELSE IF Len(members) + 1 >= policy_instance_minimum[g]
              THEN [members |-> members, cnt |-> cnt]
         ELSE IF i \in Range(members) THEN MinLoopStopsOneShort(g, cand, j + 1, members, cnt)
         ELSE MinLoopStopsOneShort(g, cand, j + 1, Append(members, i), [cnt EXCEPT ![i] = @ + 1])

\* The inner loop of the minimum pass for group g, from position j of the
\* candidates cand, with g.instances = members and len(i.groups) = cnt[i]
RECURSIVE MinLoop(_, _, _, _, _)
MinLoop(g, cand, j, members, cnt) ==
    IF j > Len(cand) THEN [members |-> members, cnt |-> cnt]
    ELSE LET i == cand[j] IN
         IF node_type[i] = exclude_type(g) THEN MinLoop(g, cand, j + 1, members, cnt)
         ELSE IF Len(members) >= policy_instance_minimum[g] THEN [members |-> members, cnt |-> cnt]
         ELSE IF i \in Range(members) THEN MinLoop(g, cand, j + 1, members, cnt)
         ELSE MinLoop(g, cand, j + 1, Append(members, i), [cnt EXCEPT ![i] = @ + 1])

\* candidate_pool_ct of a group, ai being actual_instances
candidate_pool_ct(g, ai) ==
    Cardinality({n \in Range(ai) : node_type[n] # exclude_type(g)})

\* A percentage loop that still adds a node to a group that is at its percentage
RECURSIVE PercentLoopAddsAtTarget(_, _, _, _, _, _)
PercentLoopAddsAtTarget(g, pool, cand, j, members, cnt) ==
    IF j > Len(cand) THEN [members |-> members, cnt |-> cnt]
    ELSE LET i == cand[j] IN
         IF node_type[i] = exclude_type(g)
         THEN PercentLoopAddsAtTarget(g, pool, cand, j + 1, members, cnt)
         ELSE IF i \in Range(members)
         THEN PercentLoopAddsAtTarget(g, pool, cand, j + 1, members, cnt)
         ELSE IF 100 * Len(members) > policy_instance_percentage[g] * pool
              THEN [members |-> members, cnt |-> cnt]
         ELSE PercentLoopAddsAtTarget(g, pool, cand, j + 1, Append(members, i),
                                      [cnt EXCEPT ![i] = @ + 1])

\* The inner loop of the percentage pass for group g, pool being candidate_pool_ct
RECURSIVE PercentLoop(_, _, _, _, _, _)
PercentLoop(g, pool, cand, j, members, cnt) ==
    IF j > Len(cand) THEN [members |-> members, cnt |-> cnt]
    ELSE LET i == cand[j] IN
         IF node_type[i] = exclude_type(g) THEN PercentLoop(g, pool, cand, j + 1, members, cnt)
         ELSE IF i \in Range(members) THEN PercentLoop(g, pool, cand, j + 1, members, cnt)
         ELSE IF 100 * Len(members) >= policy_instance_percentage[g] * pool
              THEN [members |-> members, cnt |-> cnt]
         ELSE PercentLoop(g, pool, cand, j + 1, Append(members, i), [cnt EXCEPT ![i] = @ + 1])

\* One pass over the groups gs (already sorted by size), from position k, with
\* actual_instances = ai, g.instances = inst[g] and len(i.groups) = cnt[i];
\* pass is "minimum" or "percentage"
RECURSIVE GroupPass(_, _, _, _, _, _)
GroupPass(pass, ai, gs, k, inst, cnt) ==
    IF k > Len(gs) THEN [inst |-> inst, cnt |-> cnt]
    ELSE LET g == gs[k]
             cand == StableSort(ai, cnt)
             pool == candidate_pool_ct(g, ai)
             r == IF pass = "minimum" THEN MinLoop(g, cand, 1, inst[g], cnt)
                  ELSE IF pool = 0 THEN [members |-> inst[g], cnt |-> cnt]
                  ELSE PercentLoop(g, pool, cand, 1, inst[g], cnt)
         IN  GroupPass(pass, ai, gs, k + 1, [inst EXCEPT ![g] = r.members], r.cnt)

\* sorted(actual_groups, key=lambda x: len(x.instances))
GroupsBySize(order, inst) == StableSort(order, [g \in Groups |-> Len(inst[g])])

\* g.instances of every group after the policy-list pass
AfterPolicyList ==
    LET known == Range(all_instances)
    IN  [g \in Groups |-> SelectSeq(policy_instance_list[g], LAMBDA h : h \in known)]

\* g.instances and len(i.groups) after the minimum pass, the groups being
\* returned by the store in the given order
AfterMinimum(order) ==
    LET listed == AfterPolicyList
    IN  GroupPass("minimum", actual_instances, GroupsBySize(order, listed), 1,
                  listed, InitialGroupCounts)

\* g.instances after the percentage pass
AfterPercentage(order) ==
    LET m == AfterMinimum(order)
    IN  GroupPass("percentage", actual_instances, GroupsBySize(order, m.inst), 1,
                  m.inst, m.cnt).inst

\* set(g.instances) of every group: the membership the run computes
Computed(order) ==
    LET final == AfterPercentage(order) IN [g \in Groups |-> Range(final[g])]

\* with advisory_lock('cluster_policy_lock', wait=True): the caller takes the
\* lock if it is free and blocks otherwise
PolicyCall(p) ==
    /\ pol_pc[p] = "idle"
    /\ pol_contended' = [pol_contended EXCEPT ![p] = (policy_lock # 0)]
    /\ IF policy_lock = 0
       THEN policy_lock' = p /\ pol_pc' = [pol_pc EXCEPT ![p] = "locked"]
       ELSE policy_lock' = policy_lock /\ pol_pc' = [pol_pc EXCEPT ![p] = "waiting"]
    /\ UNCHANGED <<cfgVars, ig_instances, group_order, pol_runs, first_changed,
                   last_added, last_removed, notPolVars>>

\* A blocked caller that goes on without the lock (wait=False, result unchecked)
ProceedUnlocked(p) ==
    /\ pol_pc[p] = "waiting"
    /\ policy_lock' = IF policy_lock = 0 THEN p ELSE policy_lock
    /\ pol_pc' = [pol_pc EXCEPT ![p] = "locked"]
    /\ UNCHANGED <<cfgVars, ig_instances, group_order, pol_contended, pol_runs, first_changed,
                   last_added, last_removed, notPolVars>>

\* A blocked caller gets the lock once it is free
PolicyAcquire(p) ==
    /\ pol_pc[p] = "waiting"
    /\ policy_lock = 0
    /\ policy_lock' = p
    /\ pol_pc' = [pol_pc EXCEPT ![p] = "locked"]
    /\ UNCHANGED <<cfgVars, ig_instances, group_order, pol_contended, pol_runs, first_changed,
                   last_added, last_removed, notPolVars>>

\* An apply loop that skips no group
SkipsNoGroup(g) == FALSE

\* if g.obj.is_container_group: continue
SkipsContainerGroup(g) == is_container_group[g]

\* instances_to_add = set(g.instances) - set(g.prior_instances)
instances_to_add(computed, prior) == computed \ prior

\* An apply loop that removes nobody
RemovesNothing(computed, prior) == {}

\* instances_to_remove = set(g.prior_instances) - set(g.instances)
instances_to_remove(computed, prior) == prior \ computed

\* The body of apply_cluster_membership_policies under the lock: compute the
\* membership, apply the difference in one transaction, release the lock.
PolicyRun(p) ==
    /\ pol_pc[p] = "locked"
    /\ \E computed \in {Computed(group_order)} :
         LET needs_change == \E g \in Groups : computed[g] # ig_instances[g]
             touched(g) == needs_change /\ ~SkipsContainerGroup(g)
             add == [g \in Groups |-> IF touched(g)
                                      THEN instances_to_add(computed[g], ig_instances[g])
                                      ELSE {}]
             rem == [g \in Groups |-> IF touched(g)
                                      THEN instances_to_remove(computed[g], ig_instances[g])
                                      ELSE {}]
         IN  /\ ig_instances' = [g \in Groups |-> (ig_instances[g] \cup add[g]) \ rem[g]]
             /\ last_added' = add
             /\ last_removed' = rem
             /\ first_changed' = IF pol_runs = 0
                                 THEN \E g \in Groups : add[g] # {} \/ rem[g] # {}
                                 ELSE first_changed
    /\ pol_runs' = IF pol_runs < 2 THEN pol_runs + 1 ELSE pol_runs
    /\ policy_lock' = IF policy_lock = p THEN 0 ELSE policy_lock
    /\ pol_pc' = [pol_pc EXCEPT ![p] = "idle"]
    /\ UNCHANGED <<cfgVars, group_order, pol_contended, notPolVars>>

\* The node types the model draws for each instance
NodeTypeChoices(n) ==
    IF n = 1 THEN {"control", "hybrid", "execution"}
    ELSE IF n = 2 THEN {"hybrid"}
    ELSE IF n = 3 THEN {"execution", "hop", "control"}
    ELSE {"execution"}

\* The policy lists the model draws
PolicyLists(g) ==
    IF g = "controlplane" THEN {<< >>, <<1>>} ELSE {<< >>, <<UnknownHost, 3>>}

\* The percentages the model draws
Percentages(g) == IF g = "controlplane" THEN {0, 100} ELSE {0, 50}

\* The orders in which the store may return the groups
GroupOrders == {<<"controlplane", "default">>, <<"default", "controlplane">>}

\* The settings of the two groups, drawn from cp for the control plane group
\* and from df for the other
PerGroup(cp, df) ==
    {[g \in Groups |-> IF g = "controlplane" THEN a ELSE b] : a \in cp, b \in df}

\* The memberships the model draws for the store before a run: nobody in a
\* group, everybody in every group, one node in each
PriorMemberships ==
    {[g \in Groups |-> {}], [g \in Groups |-> Nodes],
     [g \in Groups |-> IF g = "controlplane" THEN {3} ELSE {1}]}

\* Instances, groups, a prior membership and the store's order
InitPolicyStore ==
    /\ node_type \in {f \in [Nodes -> NodeTypes] : \A n \in Nodes : f[n] \in NodeTypeChoices(n)}
    /\ managed_by_policy \in {f \in [Nodes -> BOOLEAN] : \A n \in Nodes : n # 2 => f[n]}
    /\ policy_instance_list \in PerGroup(PolicyLists("controlplane"), PolicyLists("default"))
    /\ policy_instance_minimum \in [Groups -> 0..MaxMin]
    /\ policy_instance_percentage \in PerGroup(Percentages("controlplane"), Percentages("default"))
    /\ is_container_group \in {f \in [Groups -> BOOLEAN] : ~f["controlplane"]}
    /\ ig_instances \in {[g \in Groups |-> {}], [g \in Groups |-> Nodes]}
    /\ group_order \in GroupOrders

\* Nodes of every kind, all managed by policy, groups with policy lists and
\* minimums, and a prior membership of any of the three kinds
InitApplyStore ==
    /\ node_type \in {f \in [Nodes -> NodeTypes] : \A n \in Nodes : f[n] \in NodeTypeChoices(n)}
    /\ managed_by_policy = [n \in Nodes |-> TRUE]
    /\ policy_instance_list \in PerGroup(PolicyLists("controlplane"), PolicyLists("default"))
    /\ policy_instance_minimum \in [Groups -> 0..MaxMin]
    /\ policy_instance_percentage \in PerGroup({0}, Percentages("default"))
    /\ is_container_group \in {f \in [Groups -> BOOLEAN] : ~f["controlplane"]}
    /\ ig_instances \in PriorMemberships
    /\ group_order \in GroupOrders

\* Instances and groups of every kind, no container group, nobody in a group yet
InitMembershipStore ==
    /\ InitPolicyStore
    /\ is_container_group = [g \in Groups |-> FALSE]
    /\ ig_instances = [g \in Groups |-> {}]

\* The stores with policy minimums only
InitMinimumStore ==
    /\ node_type = [n \in Nodes |-> "hybrid"]
    /\ managed_by_policy = [n \in Nodes |-> TRUE]
    /\ policy_instance_list = [g \in Groups |-> << >>]
    /\ policy_instance_minimum \in [Groups -> 0..MaxMin]
    /\ policy_instance_percentage = [g \in Groups |-> 0]
    /\ is_container_group = [g \in Groups |-> FALSE]
    /\ ig_instances \in {[g \in Groups |-> {}], [g \in Groups |-> Nodes]}
    /\ group_order \in GroupOrders

InitPolicyTask(procs) ==
    /\ policy_lock = 0
    /\ pol_pc = [p \in procs |-> "idle"]
    /\ pol_contended = [p \in procs |-> FALSE]
    /\ pol_runs = 0
    /\ first_changed = FALSE
    /\ last_added = [g \in Groups |-> {}]
    /\ last_removed = [g \in Groups |-> {}]

\* One fixed store, for the specifications that are not about the policy task
QuietPolicy ==
    /\ node_type = [n \in Nodes |-> "hybrid"]
    /\ managed_by_policy = [n \in Nodes |-> TRUE]
    /\ policy_instance_list = [g \in Groups |-> << >>]
    /\ policy_instance_minimum = [g \in Groups |-> 0]
    /\ policy_instance_percentage = [g \in Groups |-> 0]
    /\ is_container_group = [g \in Groups |-> FALSE]
    /\ ig_instances = [g \in Groups |-> {}]
    /\ group_order = <<"controlplane", "default">>
    /\ InitPolicyTask({1})

-----------------------------------------------------------------------------
(* cluster_node_heartbeat and inspect_execution_and_hop_nodes (system.py) *)

\* The liveness threshold of Instance.is_lost, in ticks
LivenessThreshold == 2

\* The time at which the heartbeat runs start: a last_seen of 0 is then lost
HbStart == LivenessThreshold + 1

\* None, for a timestamp that is not set
NoTime == -1

\* settings.EXECUTION_NODE_REMEDIATION_CHECKS, in ticks
EXECUTION_NODE_REMEDIATION_CHECKS == 2

\* The default grace period of reaper.reap_waiting, in ticks
JOB_WAITING_GRACE_PERIOD == 1

\* awx.__version__ of the code the heartbeat runs
awx_application_version == "1"

\* Version(v.split('-', 1)[0]) for the version strings of the model
VersionNumber(v) == IF v = "1" THEN 1 ELSE IF v = "2" THEN 2 ELSE 0

\* settings.CLUSTER_HOST_ID of the node that runs process p
CLUSTER_HOST_ID(p) == p

\* The node states the heartbeat loads
ListedStates == {"ready", "unavailable", "installed"}

Jobs == 1..NumJobs

\* The InstanceLink rows: one link from node 1 to node 3
Links == {<<1, 3>>}

\* An Instance row
InstanceRow(type, state, seen, version, cap) ==
    [present |-> TRUE, node_type |-> type, node_state |-> state, last_seen |-> seen,
     version |-> version, capacity |-> cap, enabled |-> TRUE, last_health_check |-> NoTime]

\* The place of a row that is not in the store
NoInstance == [InstanceRow("control", "installed", NoTime, "", 0) EXCEPT !.present = FALSE]

\* Instance.is_lost(ref_time): last_seen is older than the liveness threshold
\* (a last_seen that is not set counts as older)
is_lost(inst, ref_time) == inst.last_seen < ref_time - LivenessThreshold

\* Instance.local_health_check: the node asserts its own liveness and its
\* capacity is measured again (cap)
local_health_check(db, n, cap, t) ==
    [db EXCEPT ![n].last_seen = t, ![n].capacity = cap, ![n].last_health_check = t]

\* Instance.objects.register(node_type='control'): the row is created if missing
register(db, n) ==
    IF db[n].present THEN db
    ELSE [db EXCEPT ![n] = InstanceRow("control", "installed", NoTime, awx_application_version, 0)]

\* Instance.mark_offline: the node becomes unavailable and loses its capacity
mark_offline(db, n) == [db EXCEPT ![n].node_state = "unavailable", ![n].capacity = 0]

\* Instance.save_health_data(errors=''): a node without errors is ready
save_health_data(inst) == [inst EXCEPT !.node_state = "ready"]

\* other_inst.delete()
delete(db, n) == [db EXCEPT ![n] = NoInstance]

\* A reaper that fails again the jobs it finds failed
ReapUnlessSuccessful(jb, node, excluded_uuids, ref_time) ==
    [j \in DOMAIN jb |->
        IF /\ jb[j].node = node
           /\ jb[j].status \in {"running", "failed"}
           /\ j \notin excluded_uuids
           /\ (ref_time # NoTime => jb[j].started < ref_time)
        THEN [jb[j] EXCEPT !.status = "failed", !.notifications = @ + 1]
        ELSE jb[j]]

\* reaper.reap(instance, excluded_uuids, ref_time): the running jobs of the node
\* that are not excluded and (ref_time given) started before it are failed, and
\* a status notification is emitted for each
reap(jb, node, excluded_uuids, ref_time) ==
    [j \in DOMAIN jb |->
        IF /\ jb[j].node = node
           /\ jb[j].status = "running"
           /\ j \notin excluded_uuids
           /\ (ref_time # NoTime => jb[j].started < ref_time)
        THEN [jb[j] EXCEPT !.status = "failed", !.notifications = @ + 1]
        ELSE jb[j]]

\* reaper.reap_waiting(instance, grace_period, excluded_uuids, ref_time): the
\* same for the waiting jobs older than the grace period; t is now()
reap_waiting(jb, node, grace_period, excluded_uuids, ref_time, t) ==
    [j \in DOMAIN jb |->
        IF /\ jb[j].node = node
           /\ jb[j].status = "waiting"
           /\ j \notin excluded_uuids
           /\ jb[j].started < (IF ref_time = NoTime THEN t ELSE ref_time) - grace_period
        THEN [jb[j] EXCEPT !.status = "failed", !.notifications = @ + 1]
        ELSE jb[j]]

\* The jobs that a step failed
NewlyFailed(before, after) ==
    {j \in DOMAIN before : before[j].status # "failed" /\ after[j].status = "failed"}

\* reaper.reap(other_inst, ...) and reaper.reap_waiting(other_inst, grace_period=0, ...)
\* of the lost-node loop; t is now()
ReapLost(jb, other_inst, t) ==
    reap_waiting(reap(jb, other_inst, {}, NoTime), other_inst, 0, {}, NoTime, t)

\* What a cycle has done so far, for the cycle that starts
NewCycle(contended) ==
    [contended |-> contended, polled |-> FALSE, links |-> {}, seen |-> {}, health_checks |-> {},
     found |-> FALSE, startup_event |-> FALSE, capacity |-> 0, outcome |-> "running",
     lost |-> {}, reaped |-> {}, reaped_waiting |-> {}, offlined |-> {}, deleted |-> {},
     db_errors |-> {}, stopped |-> FALSE, worker_tasks |-> [given |-> FALSE, lists |-> << >>],
     local_reap |-> FALSE, local_reap_waiting |-> FALSE, local_failed |-> {}]

\* list(Instance.objects.filter(node_state__in=(READY, UNAVAILABLE, INSTALLED)))
LoadInstanceList ==
    [n \in {m \in Nodes : instances[m].present /\ instances[m].node_state \in ListedStates}
        |-> instances[n]]

\* The first lines of cluster_node_heartbeat and the entry of
\* inspect_execution_and_hop_nodes: nowtime and the instance list are read, then
\* advisory_lock(..., wait=False) takes the lock if it is free; what it yields is
\* not looked at, and the body runs either way.
HeartbeatBegin(p) ==
    /\ hb_pc[p] \in {"idle", "done"}
    /\ hb_cycles[p] < MaxCycles
    /\ hb_cycles' = [hb_cycles EXCEPT ![p] = @ + 1]
    /\ nowtime' = [nowtime EXCEPT ![p] = hb_clock]
    /\ instance_list' = [instance_list EXCEPT ![p] = LoadInstanceList]
    /\ acquired' = [acquired EXCEPT ![p] = (inspect_lock = 0)]
    /\ inspect_lock' = IF inspect_lock = 0 THEN p ELSE inspect_lock
    /\ cycle' = [cycle EXCEPT ![p] = NewCycle(inspect_lock # 0)]
    /\ hb_pc' = [hb_pc EXCEPT ![p] = "inspecting"]
    /\ UNCHANGED <<hb_clock, settings, instances, link_state, jobs, notHbVars>>

\* An inspection that establishes every link in state adding
EstablishesEveryAddingLink(links, costs) ==
    [l \in DOMAIN links |-> IF links[l] = "adding" THEN "established" ELSE links[l]]

\* inspect_established_receptor_connections: a link in state adding whose
\* target is among the known connection costs of its source gets established
inspect_established_receptor_connections(links, costs) ==
    [l \in DOMAIN links |->
        IF links[l] = "adding" /\ links[l] # "removing" /\ l \in costs /\ links[l] # "established"
        THEN "established"
        ELSE links[l]]

\* InstanceLink.States
LinkStates == {"adding", "established", "removing"}

\* The InstanceLink rows of a mesh with links in both directions
MeshLinks == {<<1, 3>>, <<3, 1>>, <<2, 3>>}

\* The KnownConnectionCosts the mesh may report: any set of entries from a
\* source to a target, also for pairs that have no InstanceLink row
CostSets == SUBSET (MeshLinks \cup {<<3, 2>>})

NoInspection == [calls |-> 0, costs |-> {}, before |-> << >>]

\* inspect_established_receptor_connections(mesh_status) called on its own
InspectLinks(costs) ==
    /\ inspected.calls = 0
    /\ link_state' = inspect_established_receptor_connections(link_state, costs)
    /\ inspected' = [calls |-> 1, costs |-> costs, before |-> link_state]
    /\ UNCHANGED <<hb_clock, settings, instances, jobs, inspect_lock, hb_pc, hb_cycles,
                   nowtime, instance_list, acquired, cycle, cbVars, polVars, rpVars, afVars, wuVars>>

\* ---------------------------------------------------------------------
\* awx_receptor_workunit_reaper (system.py)
\* ---------------------------------------------------------------------

\* The statuses of a unified job
UnifiedJobStatuses ==
    {"new", "pending", "waiting", "running", "successful", "failed", "error", "canceled"}

\* awx.main.constants, imported by system.py
ACTIVE_STATES == {"new", "pending", "waiting", "running"}
ERROR_STATES == {"error"}

\* The unified jobs that are launched through receptor
UnitJobs == 1..NumUnitJobs

\* work_unit_id of a job that has no work unit
NoUnit == 0

\* The work units receptor may list: one for each job, and one more that
\* belongs to no job (administrative work)
WorkUnits == 1..(NumUnitJobs + 1)

\* No job, no work unit and no run of the task
NoReaping ==
    [RECEPTOR_RELEASE_WORK |-> FALSE, RECEPTOR_KEEP_WORK_ON_ERROR |-> FALSE,
     unified_jobs |-> << >>, work_list |-> {}, commands |-> << >>, runs |-> 0]

\* The orders in which a queryset without order_by may yield its rows
RECURSIVE Orders(_)
Orders(rows) ==
    IF rows = {} THEN {<< >>}
    ELSE UNION {{<<row>> \o rest : rest \in Orders(rows \ {row})} : row \in rows}

\* The selection without .exclude(status__in=ACTIVE_STATES)
SelectsActiveJobs(rw) ==
    LET listed == {j \in DOMAIN rw.unified_jobs :
                      rw.unified_jobs[j].work_unit_id \in rw.work_list}
    IN  IF rw.RECEPTOR_KEEP_WORK_ON_ERROR
        THEN {j \in listed : rw.unified_jobs[j].status \notin ERROR_STATES}
        ELSE listed

\* UnifiedJob.objects.filter(work_unit_id__in=unit_ids).exclude(status__in=ACTIVE_STATES),
\* and .exclude(status__in=ERROR_STATES) under RECEPTOR_KEEP_WORK_ON_ERROR
jobs_with_unreleased_receptor_units(rw) ==
    LET listed == {j \in DOMAIN rw.unified_jobs :
                      rw.unified_jobs[j].work_unit_id \in rw.work_list}
        inactive == {j \in listed : rw.unified_jobs[j].status \notin ACTIVE_STATES}
    IN  IF rw.RECEPTOR_KEEP_WORK_ON_ERROR
        THEN {j \in inactive : rw.unified_jobs[j].status \notin ERROR_STATES}
        ELSE inactive

\* The loop that releases before it cancels
RECURSIVE ReleaseThenCancel(_, _)
ReleaseThenCancel(order, rw) ==
    IF order = << >> THEN << >>
    ELSE <<[op |-> "work release", unit |-> rw.unified_jobs[Head(order)].work_unit_id],
           [op |-> "work cancel", unit |-> rw.unified_jobs[Head(order)].work_unit_id]>>
         \o ReleaseThenCancel(Tail(order), rw)

\* for job in jobs_with_unreleased_receptor_units: "work cancel", then "work release"
RECURSIVE ReapUnits(_, _)
ReapUnits(order, rw) ==
    IF order = << >> THEN << >>
    ELSE <<[op |-> "work cancel", unit |-> rw.unified_jobs[Head(order)].work_unit_id],
           [op |-> "work release", unit |-> rw.unified_jobs[Head(order)].work_unit_id]>>
         \o ReapUnits(Tail(order), rw)

\* "work release" of each unit of a sequence
RECURSIVE ReleaseOnly(_)
ReleaseOnly(order) ==
    IF order = << >> THEN << >>
    ELSE <<[op |-> "work release", unit |-> Head(order)]>> \o ReleaseOnly(Tail(order))

\* administrative_workunit_reaper(receptor_work_list): it may release the
\* listed units that are administrative work, which are no job's units
administrative_workunit_reaper(rw) ==
    LET administrative ==
            {u \in rw.work_list :
                \A j \in DOMAIN rw.unified_jobs : rw.unified_jobs[j].work_unit_id # u}
    IN  UNION {{ReleaseOnly(order) : order \in Orders(units)} : units \in SUBSET administrative}

\* "work release" takes the unit out of receptor's list
Released(commands) ==
    {commands[i].unit : i \in {k \in DOMAIN commands : commands[k].op = "work release"}}

\* One run of the periodic task
awx_receptor_workunit_reaper ==
    /\ receptor.runs < MaxReaperRuns
    /\ IF ~receptor.RECEPTOR_RELEASE_WORK
       THEN receptor' = [receptor EXCEPT !.runs = @ + 1, !.commands = << >>]
       ELSE \E order \in Orders(jobs_with_unreleased_receptor_units(receptor)) :
            \E administrative \in administrative_workunit_reaper(receptor) :
               LET commands == ReapUnits(order, receptor) \o administrative
               IN  receptor' = [receptor EXCEPT !.runs = @ + 1,
                                                !.commands = commands,
                                                !.work_list = @ \ Released(commands)]
    /\ UNCHANGED <<cbVars, polVars, hbVars, rpVars, afVars, lkVars>>

\* The job's run ends: an active job takes a final status
UnifiedJobEnds(j, status) ==
    /\ receptor.unified_jobs[j].status \in ACTIVE_STATES
    /\ receptor' = [receptor EXCEPT !.unified_jobs[j].status = status]
    /\ UNCHANGED <<cbVars, polVars, hbVars, rpVars, afVars, lkVars>>

NextWorkunitReaper ==
    \/ awx_receptor_workunit_reaper
    \/ \E j \in UnitJobs, status \in UnifiedJobStatuses \ ACTIVE_STATES : UnifiedJobEnds(j, status)

\* A health check is due for a node of capacity 0 that the mesh advertises
RemediationDue(inst, t) ==
    \/ inst.last_health_check = NoTime
    \/ t - inst.last_health_check >= EXECUTION_NODE_REMEDIATION_CHECKS

\* An inspection that leaves only control nodes to local_health_check
IsControlNode(instance) == instance.node_type = "control"

\* if instance.node_type in (Instance.Types.CONTROL, Instance.Types.HYBRID): continue
IsControlPlaneNode(instance) == instance.node_type \in {"control", "hybrid"}

\* The loop of inspect_execution_and_hop_nodes over the advertisements, from
\* the k-th on.  st holds the store (db), the loaded instance objects (list),
\* the cycle's record (log) and whether a save has raised.
RECURSIVE ProcessAds(_, _, _, _)
ProcessAds(ads, k, t, st) ==
    IF k > Len(ads) \/ st.raised THEN st
    ELSE LET hostname == ads[k].NodeID
             last_seen == ads[k].Time
         IN  IF hostname \notin DOMAIN st.list THEN ProcessAds(ads, k + 1, t, st)
             ELSE LET instance == st.list[hostname]
                      seen == [st EXCEPT !.db[hostname].last_seen = last_seen,
                                         !.list[hostname].last_seen = last_seen,
                                         !.log.seen = @ \cup {hostname}]
                      check == [seen EXCEPT !.log.health_checks = @ \cup {hostname}]
                  IN  IF IsControlPlaneNode(instance)
                      THEN ProcessAds(ads, k + 1, t, st)
                      ELSE IF instance.last_seen # NoTime /\ instance.last_seen >= last_seen
                      THEN ProcessAds(ads, k + 1, t, st)
                      ELSE IF ~st.db[hostname].present
                      THEN [st EXCEPT !.raised = TRUE]
                      ELSE IF instance.node_type = "hop"
                      THEN IF instance.node_state \in {"unavailable", "installed"}
                           THEN ProcessAds(ads, k + 1, t,
                                    [seen EXCEPT !.db[hostname] = save_health_data(@),
                                                 !.list[hostname] = save_health_data(@)])
                           ELSE ProcessAds(ads, k + 1, t, seen)
                      ELSE IF instance.node_state \in {"unavailable", "installed"}
                      THEN ProcessAds(ads, k + 1, t, check)
                      ELSE IF instance.capacity = 0 /\ instance.enabled /\ RemediationDue(instance, t)
                      THEN ProcessAds(ads, k + 1, t, check)
                      ELSE ProcessAds(ads, k + 1, t, seen)

\* An advertisement of the mesh
Ad(node, time) == [NodeID |-> node, Time |-> time]

\* The answers of the mesh to the status command at time t that the model draws
MeshStatuses(t) ==
    {[Advertisements |-> << >>, KnownConnectionCosts |-> {}],
     [Advertisements |-> <<Ad(3, t)>>, KnownConnectionCosts |-> Links],
     [Advertisements |-> <<Ad(3, 1)>>, KnownConnectionCosts |-> {}],
     [Advertisements |-> <<Ad(UnknownHost, t), Ad(2, t)>>, KnownConnectionCosts |-> {}]}

\* The body of inspect_execution_and_hop_nodes, and the release of the lock
\* if this process holds it
HeartbeatInspect(p) ==
    /\ hb_pc[p] = "inspecting"
    /\ \E mesh_status \in MeshStatuses(hb_clock) :
         LET links == inspect_established_receptor_connections(link_state, mesh_status.KnownConnectionCosts)
             start == [db |-> instances, list |-> instance_list[p],
                       log |-> [cycle[p] EXCEPT !.polled = TRUE,
                                                !.links = {l \in Links : links[l] # link_state[l]}],
                       raised |-> FALSE]
         IN  \E st \in {ProcessAds(mesh_status.Advertisements, 1, hb_clock, start)} :
                /\ link_state' = links
                /\ instances' = st.db
                /\ instance_list' = [instance_list EXCEPT ![p] = st.list]
                /\ cycle' = [cycle EXCEPT ![p] = IF st.raised
                                                  THEN [st.log EXCEPT !.outcome = "raised"]
                                                  ELSE st.log]
                /\ hb_pc' = [hb_pc EXCEPT ![p] = IF st.raised THEN "done" ELSE "inspected"]
    /\ inspect_lock' = IF acquired[p] THEN 0 ELSE inspect_lock
    /\ UNCHANGED <<hb_clock, settings, jobs, hb_cycles, nowtime, acquired, notHbVars>>

\* The test of the rejoin early return, on a lost self node with this capacity
\* only when the capacity is zero
RejoinsAtZeroCapacity(startup_event, capacity) == startup_event /\ capacity = 0

\* if startup_event and this_inst.capacity != 0: ... return
RejoinsCluster(startup_event, capacity) == startup_event /\ capacity # 0

\* The version check that passes over control nodes instead of execution nodes
SkipsControlNodes(inst) ==
    \/ inst.node_type \in {"control", "hop"}
    \/ inst.version = ""
    \/ inst.version = "ansible-runner-2"

\* The instances the version check passes over: execution and hop nodes, and
\* versions that are empty or start with 'ansible-runner'
SkipsVersionCheck(inst) ==
    \/ inst.node_type \in {"execution", "hop"}
    \/ inst.version = ""
    \/ inst.version = "ansible-runner-2"

\* The version check: an instance left in the list reports a greater version
\* than this code and DEBUG is off
VersionSkew(list, remaining) ==
    \E n \in remaining :
        /\ ~SkipsVersionCheck(list[n])
        /\ VersionNumber(list[n].version) > VersionNumber(awx_application_version)
        /\ ~settings.DEBUG

\* The lost-node loop marking offline the nodes that are unavailable already
MarksUnavailableOffline(inst) == inst.node_state = "unavailable"

\* elif other_inst.node_state == Instance.States.READY: other_inst.mark_offline(...)
MarksOffline(inst) == inst.node_state = "ready"

\* A lost-node loop that a DatabaseError leaves: the nodes after the failing one
\* are not processed
RECURSIVE LostLoopAbortsOnDbError(_, _, _, _, _, _)
LostLoopAbortsOnDbError(lost, k, list, t, st, db_raises) ==
    IF k > Len(lost) THEN st
    ELSE LET other_inst == lost[k]
             reaped == ReapLost(st.jobs, other_inst, t)
             log == [st.log EXCEPT !.reaped = @ \cup {other_inst},
                                   !.reaped_waiting = @ \cup {other_inst}]
             raised == [db |-> st.db, jobs |-> reaped,
                        log |-> [log EXCEPT !.db_errors = @ \cup {other_inst}]]
         IN  IF settings.AWX_AUTO_DEPROVISION_INSTANCES /\ list[other_inst].node_type = "control"
             THEN IF other_inst \in db_raises THEN raised
                  ELSE LostLoopAbortsOnDbError(lost, k + 1, list, t,
                           [db |-> delete(st.db, other_inst), jobs |-> reaped,
                            log |-> [log EXCEPT !.deleted = @ \cup {other_inst}]], db_raises)
             ELSE IF MarksOffline(list[other_inst])
             THEN IF st.db[other_inst].present /\ other_inst \notin db_raises
                  THEN LostLoopAbortsOnDbError(lost, k + 1, list, t,
                           [db |-> mark_offline(st.db, other_inst), jobs |-> reaped,
                            log |-> [log EXCEPT !.offlined = @ \cup {other_inst}]], db_raises)
                  ELSE raised
             ELSE LostLoopAbortsOnDbError(lost, k + 1, list, t,
                      [db |-> st.db, jobs |-> reaped, log |-> log], db_raises)

\* The loop over lost_instances, from the k-th on.  st holds the store (db),
\* the jobs and the cycle's record (log); t is now().  db_raises holds the nodes
\* whose row the database fails to delete or update in this cycle: the
\* DatabaseError is caught and logged, and the loop goes on.  Saving a row
\* that is gone raises as well.
RECURSIVE LostLoop(_, _, _, _, _, _)
LostLoop(lost, k, list, t, st, db_raises) ==
    IF k > Len(lost) THEN st
    ELSE LET other_inst == lost[k]
             reaped == ReapLost(st.jobs, other_inst, t)
             log == [st.log EXCEPT !.reaped = @ \cup {other_inst},
                                   !.reaped_waiting = @ \cup {other_inst}]
             raised == [db |-> st.db, jobs |-> reaped,
                        log |-> [log EXCEPT !.db_errors = @ \cup {other_inst}]]
         IN  IF settings.AWX_AUTO_DEPROVISION_INSTANCES /\ list[other_inst].node_type = "control"
             THEN IF other_inst \in db_raises
                  THEN LostLoop(lost, k + 1, list, t, raised, db_raises)
                  ELSE LostLoop(lost, k + 1, list, t,
                           [db |-> delete(st.db, other_inst), jobs |-> reaped,
                            log |-> [log EXCEPT !.deleted = @ \cup {other_inst}]], db_raises)
             ELSE IF MarksOffline(list[other_inst])
             THEN IF st.db[other_inst].present /\ other_inst \notin db_raises
                  THEN LostLoop(lost, k + 1, list, t,
                           [db |-> mark_offline(st.db, other_inst), jobs |-> reaped,
                            log |-> [log EXCEPT !.offlined = @ \cup {other_inst}]], db_raises)
                  ELSE LostLoop(lost, k + 1, list, t, raised, db_raises)
             ELSE LostLoop(lost, k + 1, list, t,
                      [db |-> st.db, jobs |-> reaped, log |-> log], db_raises)

\* The task ids of the first worker only
FirstWorkerTaskIds(worker_tasks) ==
    IF worker_tasks.lists = << >> THEN {} ELSE Range(worker_tasks.lists[1])

\* active_task_ids: the task lists of all workers, joined
ActiveTaskIds(worker_tasks) ==
    UNION {Range(worker_tasks.lists[i]) : i \in DOMAIN worker_tasks.lists}

\* The local reap pass at the end of the cycle.  max() over no worker raises.
LocalReap(p, worker_tasks, t, st) ==
    IF ~worker_tasks.given THEN [st EXCEPT !.log.outcome = "completed"]
    ELSE LET active_task_ids == ActiveTaskIds(worker_tasks)
             this_inst == CLUSTER_HOST_ID(p)
             dispatch_time == nowtime[p]
             raises == worker_tasks.lists = << >>
             waiting == /\ ~raises
                        /\ \A i \in DOMAIN worker_tasks.lists : Len(worker_tasks.lists[i]) <= 1
             jb1 == reap(st.jobs, this_inst, active_task_ids, dispatch_time)
             jb2 == IF waiting
                    THEN reap_waiting(jb1, this_inst, JOB_WAITING_GRACE_PERIOD, active_task_ids,
                                      dispatch_time, t)
                    ELSE jb1
         IN  [db |-> st.db, jobs |-> jb2,
              log |-> [st.log EXCEPT !.worker_tasks = worker_tasks,
                                     !.local_reap = TRUE,
                                     !.local_reap_waiting = waiting,
                                     !.local_failed = NewlyFailed(st.jobs, jb2),
                                     !.outcome = IF raises THEN "raised" ELSE "completed"]]

\* A heartbeat that never registers the node again
NeverReRegisters == FALSE

\* if settings.AWX_AUTO_DEPROVISION_INSTANCES: Instance.objects.register(...),
\* for a node that is not among the loaded instances
ReRegistersMissingHost == settings.AWX_AUTO_DEPROVISION_INSTANCES

\* A lost set that may hold the node itself
LostInstancesWithSelf(list, me, ref_time) ==
    {n \in DOMAIN list : is_lost(list[n], ref_time)}

\* lost_instances: the loaded instances other than this_inst that are lost at
\* the cycle's nowtime
lost_instances(list, me, ref_time) ==
    {n \in DOMAIN list \ {me} : is_lost(list[n], ref_time)}

\* A cycle whose lost-node loop runs before the version check
FinishCycleReapsBeforeVersionCheck(p, capacity, worker_tasks, t, db_raises) ==
    LET list == instance_list[p]
        me == CLUSTER_HOST_ID(p)
        found == me \in DOMAIN list
        lost == lost_instances(list, me, nowtime[p])
        remaining == DOMAIN list \ lost
        startup_event == found /\ is_lost(list[me], nowtime[p])
        log0 == [cycle[p] EXCEPT !.found = found, !.startup_event = startup_event, !.lost = lost]
        log1 == [log0 EXCEPT !.capacity = capacity]
        checked == IF found THEN local_health_check(instances, me, capacity, t)
                   ELSE local_health_check(register(instances, me), me, capacity, t)
        looped == LostLoop(AscendingSeq(lost), 1, list, t,
                           [db |-> checked, jobs |-> jobs, log |-> log1], db_raises)
        rest == IF VersionSkew(list, remaining)
                THEN [looped EXCEPT !.log.stopped = TRUE, !.log.outcome = "shutdown"]
                ELSE LocalReap(p, worker_tasks, t, looped)
    IN  IF found
        THEN IF ~instances[me].present
             THEN [db |-> instances, jobs |-> jobs, log |-> [log0 EXCEPT !.outcome = "raised"]]
             ELSE IF RejoinsCluster(startup_event, capacity)
             THEN [db |-> checked, jobs |-> jobs, log |-> [log1 EXCEPT !.outcome = "rejoined"]]
             ELSE rest
        ELSE IF ReRegistersMissingHost
             THEN rest
             ELSE [db |-> instances, jobs |-> jobs, log |-> [log0 EXCEPT !.outcome = "host_not_found"]]

\* cluster_node_heartbeat after the mesh inspection, as one result: the store,
\* the jobs and the cycle's record.  capacity is what the local health check
\* measures, worker_tasks what the dispatcher passed, db_raises the nodes whose
\* row the database fails to delete or update.
FinishCycle(p, capacity, worker_tasks, t, db_raises) ==
    LET list == instance_list[p]
        me == CLUSTER_HOST_ID(p)
        found == me \in DOMAIN list
        lost == lost_instances(list, me, nowtime[p])
        remaining == DOMAIN list \ lost
        startup_event == found /\ is_lost(list[me], nowtime[p])
        log0 == [cycle[p] EXCEPT !.found = found, !.startup_event = startup_event, !.lost = lost]
        log1 == [log0 EXCEPT !.capacity = capacity]
        checked == IF found THEN local_health_check(instances, me, capacity, t)
                   ELSE local_health_check(register(instances, me), me, capacity, t)
        rest == IF VersionSkew(list, remaining)
                THEN [db |-> checked, jobs |-> jobs,
                      log |-> [log1 EXCEPT !.stopped = TRUE, !.outcome = "shutdown"]]
                ELSE LocalReap(p, worker_tasks, t,
                         LostLoop(AscendingSeq(lost), 1, list, t,
                                  [db |-> checked, jobs |-> jobs, log |-> log1], db_raises))
    IN  IF found
        THEN IF ~instances[me].present
             THEN [db |-> instances, jobs |-> jobs, log |-> [log0 EXCEPT !.outcome = "raised"]]
             ELSE IF RejoinsCluster(startup_event, capacity)
             THEN [db |-> checked, jobs |-> jobs, log |-> [log1 EXCEPT !.outcome = "rejoined"]]
             ELSE rest
        ELSE IF ReRegistersMissingHost
             THEN rest
             ELSE [db |-> instances, jobs |-> jobs, log |-> [log0 EXCEPT !.outcome = "host_not_found"]]

\* The capacities a local health check may measure
Capacities == {0, 1}

\* The worker_tasks the dispatcher may pass: none, or the task lists of its workers
WorkerTasks ==
    {[given |-> FALSE, lists |-> << >>]} \cup
    {[given |-> TRUE, lists |-> l] :
        l \in {<< >>, << << >>, <<2>> >>, << <<1>>, <<2>> >>, << <<1, 2>> >>}}

\* The sets of nodes whose row the database may fail to delete or update in
\* the cycle of node p: any of the nodes the cycle finds lost
DbFailures(p) ==
    SUBSET {n \in DOMAIN instance_list[p] \ {CLUSTER_HOST_ID(p)} :
               is_lost(instance_list[p][n], nowtime[p])}

\* The rest of cluster_node_heartbeat: the lost nodes, the node's own health
\* check, the version check, the lost-node loop and the local reap pass, in a
\* cycle in which the database fails as one of failures tells
FinishHeartbeat(p, failures) ==
    /\ hb_pc[p] = "inspected"
    /\ \E capacity \in Capacities, worker_tasks \in WorkerTasks, db_raises \in failures :
         \E st \in {FinishCycle(p, capacity, worker_tasks, hb_clock, db_raises)} :
            /\ instances' = st.db
            /\ jobs' = st.jobs
            /\ cycle' = [cycle EXCEPT ![p] = st.log]
    /\ hb_pc' = [hb_pc EXCEPT ![p] = "done"]
    /\ UNCHANGED <<hb_clock, settings, link_state, inspect_lock, hb_cycles, nowtime,
                   instance_list, acquired, notHbVars>>

\* The rest of a cycle in which every delete and update of a row goes through
HeartbeatFinish(p) == FinishHeartbeat(p, {{}})

\* The rest of a cycle in which the database fails for some of the lost nodes
HeartbeatFinishDbError(p) == FinishHeartbeat(p, DbFailures(p) \ {{}})

\* Time passes
TickHeartbeat ==
    /\ \E p \in DOMAIN hb_pc : hb_pc[p] # "done"
    /\ hb_clock < HbStart + MaxTicks
    /\ hb_clock' = hb_clock + 1
    /\ UNCHANGED <<settings, instances, link_state, jobs, inspect_lock, hb_pc, hb_cycles,
                   nowtime, instance_list, acquired, cycle, notHbVars>>

\* The rows the model draws for each instance
InstanceRows(n) ==
    IF n = 1 THEN {NoInstance} \cup {InstanceRow("control", "ready", s, "1", 1) : s \in {0, HbStart}}
    ELSE IF n = 2 THEN {InstanceRow("hybrid", "ready", s, "1", 1) : s \in {0, HbStart}}
    ELSE IF n = 3
    THEN {InstanceRow(tv[1], state, s, tv[2], IF state = "ready" THEN 1 ELSE 0) :
            tv \in {<<"execution", "ansible-runner-2">>, <<"hop", "">>,
                    <<"control", "1">>, <<"control", "2">>},
            state \in ListedStates, s \in {0, HbStart}}
    ELSE {InstanceRow("execution", "ready", HbStart, "ansible-runner-2", 1)}

\* The jobs the model draws: the first two run on node 1, the others on node 3;
\* jobs 1 and 3 are running or waiting, job 2 has started long ago or just now
JobRow(j, queued) ==
    IF j = 2 THEN [node |-> 1, status |-> "running", started |-> IF queued THEN HbStart ELSE 0,
                   notifications |-> 0]
    ELSE [node |-> IF j = 1 THEN 1 ELSE 3, status |-> IF queued THEN "waiting" ELSE "running",
          started |-> 0, notifications |-> 0]

\* The store of the heartbeat: settings, instances, links and jobs
InitHeartbeatStore ==
    /\ hb_clock = HbStart
    /\ settings \in [DEBUG : BOOLEAN, AWX_AUTO_DEPROVISION_INSTANCES : BOOLEAN]
    /\ instances \in {f \in [Nodes -> UNION {InstanceRows(n) : n \in Nodes}] :
                         \A n \in Nodes : f[n] \in InstanceRows(n)}
    /\ link_state = [l \in Links |-> "adding"]
    /\ jobs \in {[j \in Jobs |-> JobRow(j, queued)] : queued \in BOOLEAN}

\* A store in which nodes 1 and 2 are alive and node 3 is lost
InitRaceStore ==
    /\ hb_clock = HbStart
    /\ settings \in [DEBUG : {FALSE}, AWX_AUTO_DEPROVISION_INSTANCES : BOOLEAN]
    /\ instances \in {f \in [Nodes -> UNION {InstanceRows(n) : n \in Nodes}] :
                         /\ \A n \in Nodes : f[n] \in InstanceRows(n)
                         /\ f[1].present /\ f[1].last_seen = HbStart /\ f[2].last_seen = HbStart
                         /\ f[3].last_seen = 0 /\ f[3].node_state # "unavailable"
                         /\ f[3].node_type # "hop" /\ f[3].version # "2"}
    /\ link_state = [l \in Links |-> "adding"]
    /\ jobs = [j \in Jobs |-> JobRow(j, FALSE)]

\* A store in which node 1 is alive, node 3 is lost and node 2, alive or
\* starting up after a pause, runs its heartbeat as well
InitFaultStore ==
    /\ hb_clock = HbStart
    /\ settings \in [DEBUG : {FALSE}, AWX_AUTO_DEPROVISION_INSTANCES : BOOLEAN]
    /\ instances \in {f \in [Nodes -> UNION {InstanceRows(n) : n \in Nodes}] :
                         /\ \A n \in Nodes : f[n] \in InstanceRows(n)
                         /\ f[1].present /\ f[1].last_seen = HbStart
                         /\ f[3].last_seen = 0 /\ f[3].node_state = "ready"
                         /\ f[3].node_type \in {"execution", "control"} /\ f[3].version # "2"}
    /\ link_state = [l \in Links |-> "adding"]
    /\ jobs = [j \in Jobs |-> JobRow(j, FALSE)]

\* A store in which nodes 1 and 2 are alive and the execution node 3 is ready
\* and enabled with capacity 0; its health was never checked, or just now
InitRemediationStore ==
    /\ hb_clock = HbStart
    /\ settings \in [DEBUG : {FALSE}, AWX_AUTO_DEPROVISION_INSTANCES : BOOLEAN]
    /\ instances \in
         {[n \in Nodes |->
             IF n = 3
             THEN [InstanceRow("execution", "ready", seen, "ansible-runner-2", 0)
                      EXCEPT !.last_health_check = checked]
             ELSE InstanceRow(IF n = 1 THEN "control" ELSE "hybrid", "ready", HbStart, "1", 1)] :
          seen \in {0, HbStart}, checked \in {NoTime, HbStart}}
    /\ link_state = [l \in Links |-> "adding"]
    /\ jobs = [j \in Jobs |-> JobRow(j, FALSE)]

\* The heartbeat task of the nodes in procs, before its first cycle
InitHeartbeatTask(procs) ==
    /\ inspect_lock = 0
    /\ hb_pc = [p \in procs |-> "idle"]
    /\ hb_cycles = [p \in procs |-> 0]
    /\ nowtime = [p \in procs |-> HbStart]
    /\ instance_list = [p \in procs |-> << >>]
    /\ acquired = [p \in procs |-> FALSE]
    /\ cycle = [p \in procs |-> NewCycle(FALSE)]

\* The heartbeat task of the nodes in procs, before the last of its cycles
InitLastCycle(procs) ==
    /\ inspect_lock = 0
    /\ hb_pc = [p \in procs |-> "idle"]
    /\ hb_cycles = [p \in procs |-> MaxCycles - 1]
    /\ nowtime = [p \in procs |-> HbStart]
    /\ instance_list = [p \in procs |-> << >>]
    /\ acquired = [p \in procs |-> FALSE]
    /\ cycle = [p \in procs |-> NewCycle(FALSE)]

\* The lost-node loop's calls of the reaper for node other_inst, made by the
\* heartbeat of node p, on their own: once more in a later cycle of p, or by
\* another node that found other_inst lost as well
ReapLostNode(p, other_inst) ==
    /\ Len(reap_calls) < MaxReaps
    /\ \E reaped \in {ReapLost(jobs, other_inst, hb_clock)} :
          /\ jobs' = reaped
          /\ reap_calls' = Append(reap_calls,
                                  [by |-> p, node |-> other_inst,
                                   failed |-> NewlyFailed(jobs, reaped),
                                   changed |-> {j \in Jobs : reaped[j] # jobs[j]}])
    /\ UNCHANGED <<hb_clock, settings, instances, link_state, inspect_lock, hb_pc, hb_cycles,
                   nowtime, instance_list, acquired, cycle, cbVars, polVars, afVars, lkVars, wuVars>>

\* The jobs the reaper may find: on node 1 or 3, in any status, never notified
ReaperJobRows ==
    [node : {1, 3}, status : {"running", "waiting", "successful"}, started : {0},
     notifications : {0}]

\* A store with jobs in every status and no call of the reaper yet
InitReaperStore ==
    /\ hb_clock = HbStart
    /\ settings = [DEBUG |-> FALSE, AWX_AUTO_DEPROVISION_INSTANCES |-> FALSE]
    /\ instances = [n \in Nodes |-> InstanceRow("hybrid", "ready", HbStart, "1", 1)]
    /\ link_state = [l \in Links |-> "adding"]
    /\ jobs \in [Jobs -> ReaperJobRows]
    /\ reap_calls = << >>
    /\ event_queries = {}
    /\ inspected = NoInspection
    /\ receptor = NoReaping

\* One fixed store and no heartbeat, for the specifications that are not about it
QuietHeartbeat ==
    /\ reap_calls = << >>
    /\ event_queries = {}
    /\ inspected = NoInspection
    /\ receptor = NoReaping
    /\ hb_clock = HbStart
    /\ settings = [DEBUG |-> FALSE, AWX_AUTO_DEPROVISION_INSTANCES |-> FALSE]
    /\ instances = [n \in Nodes |-> InstanceRow("hybrid", "ready", HbStart, "1", 1)]
    /\ link_state = [l \in Links |-> "adding"]
    /\ jobs = [j \in Jobs |-> JobRow(j, FALSE)]
    /\ InitHeartbeatTask({})

-----------------------------------------------------------------------------
(* Specifications *)

\* The events without artifact data; those that carry some are given to the
\* handler under SpecArtifacts
StreamEvents == {e \in Events : e.artifact_data = ""}

NextCallback ==
    \/ \E ev \in StreamEvents : event_handler(ev)
    \/ finished_callback
    \/ TickCallback

\* One job's callback pipeline: the throttle, the counters and the end of stream
InitSpecCallback == InitCallback /\ QuietPolicy /\ QuietHeartbeat

SpecCallback == InitSpecCallback /\ [][NextCallback]_vars

NextPolicy ==
    \/ \E p \in DOMAIN pol_pc : PolicyCall(p)
    \/ \E p \in DOMAIN pol_pc : PolicyRun(p)

\* The policy task called by one process, over all stores of the model
InitSpecPolicy == QuietCallback /\ InitPolicyStore /\ InitPolicyTask({1}) /\ QuietHeartbeat

SpecPolicy == InitSpecPolicy /\ [][NextPolicy]_vars

\* The policy task over all stores without container groups and without a
\* prior membership
InitSpecMembership ==
    /\ QuietCallback /\ InitMembershipStore /\ InitPolicyTask({1}) /\ QuietHeartbeat

SpecMembership == InitSpecMembership /\ [][NextPolicy]_vars

\* The runs of one caller over stores with a prior membership of any kind
InitSpecApply == QuietCallback /\ InitApplyStore /\ InitPolicyTask({1}) /\ QuietHeartbeat

SpecApply == InitSpecApply /\ [][NextPolicy]_vars

NextPolicyLock ==
    \/ \E p \in DOMAIN pol_pc : PolicyCall(p)
    \/ \E p \in DOMAIN pol_pc : PolicyAcquire(p)
    \/ \E p \in DOMAIN pol_pc : PolicyRun(p)

\* The policy task called by several processes
InitSpecPolicyLock ==
    QuietCallback /\ InitMinimumStore /\ InitPolicyTask(1..NumPolicyProcs) /\ QuietHeartbeat

SpecPolicyLock == InitSpecPolicyLock /\ [][NextPolicyLock]_vars

NextHeartbeat ==
    \/ \E p \in DOMAIN hb_pc : HeartbeatBegin(p)
    \/ \E p \in DOMAIN hb_pc : HeartbeatInspect(p)
    \/ \E p \in DOMAIN hb_pc : HeartbeatFinish(p)
    \/ TickHeartbeat

\* The heartbeat of node 1, over all stores of the model
InitSpecHeartbeat ==
    /\ QuietCallback /\ QuietPolicy /\ InitHeartbeatStore /\ InitHeartbeatTask({1})
    /\ reap_calls = << >>
    /\ event_queries = {}
    /\ inspected = NoInspection
    /\ receptor = NoReaping

SpecHeartbeat == InitSpecHeartbeat /\ [][NextHeartbeat]_vars

\* The heartbeats of several nodes that run at the same time
InitSpecHeartbeatRace ==
    /\ QuietCallback /\ QuietPolicy /\ InitRaceStore /\ InitHeartbeatTask(1..NumHeartbeatProcs)
    /\ reap_calls = << >>
    /\ event_queries = {}
    /\ inspected = NoInspection
    /\ receptor = NoReaping

SpecHeartbeatRace == InitSpecHeartbeatRace /\ [][NextHeartbeat]_vars

NextHeartbeatFaults ==
    \/ \E p \in DOMAIN hb_pc : HeartbeatBegin(p)
    \/ \E p \in DOMAIN hb_pc : HeartbeatInspect(p)
    \/ \E p \in DOMAIN hb_pc : HeartbeatFinish(p)
    \/ \E p \in DOMAIN hb_pc : HeartbeatFinishDbError(p)

\* The heartbeats of several nodes that run at the same time, over a database
\* that may fail
InitSpecHeartbeatFaults ==
    /\ QuietCallback /\ QuietPolicy /\ InitFaultStore /\ InitLastCycle({1, 2})
    /\ reap_calls = << >>
    /\ event_queries = {}
    /\ inspected = NoInspection
    /\ receptor = NoReaping

SpecHeartbeatFaults == InitSpecHeartbeatFaults /\ [][NextHeartbeatFaults]_vars

\* The heartbeats of two nodes over a store with a node in need of remediation
InitSpecRemediation ==
    /\ QuietCallback /\ QuietPolicy /\ InitRemediationStore /\ InitLastCycle({1, 2})
    /\ reap_calls = << >>
    /\ event_queries = {}
    /\ inspected = NoInspection
    /\ receptor = NoReaping

SpecRemediation == InitSpecRemediation /\ [][NextHeartbeat]_vars

NextReaper ==
    \E p \in 1..NumHeartbeatProcs, other_inst \in {1, 3} : ReapLostNode(p, other_inst)

\* The reaper called several times for lost nodes, over jobs in every status
InitSpecReaper == QuietCallback /\ QuietPolicy /\ InitReaperStore /\ InitHeartbeatTask({})

SpecReaper == InitSpecReaper /\ [][NextReaper]_vars

\* The events of a stream that ends: keepalives, events with and without
\* their line keys
FinalizeEvents == {e \in StreamEvents : e.end_line = 0 /\ ~e.stdout_empty}

NextFinalize ==
    \/ \E ev \in FinalizeEvents : event_handler(ev)
    \/ \E status_data \in StatusData : status_handler(status_data)
    \/ finished_callback
    \/ get_delayed_update_fields

\* A job's callbacks from the first event to the terminal save
InitSpecFinalize ==
    /\ \E k \in {"job", "inventory_update"} : NewCallback(k, 1)
    /\ QuietPolicy /\ QuietHeartbeat

\* The statuses and artifact directories of the wrap-up specification: a start,
\* an error with at most a one-word traceback, a directory without a readable
\* artifact file
WrapupStatuses ==
    {sd \in StatusData : sd.job_explanation = NoText /\ Len(sd.result_traceback) <= 1}

WrapupDirs == {dir \in ArtifactDirs : dir.file # "parsed"}

NextWrapup ==
    \/ \E ev \in FinalizeEvents : event_handler(ev)
    \/ \E status_data \in WrapupStatuses : status_handler(status_data)
    \/ \E dir \in WrapupDirs : artifacts_handler(dir)
    \/ finished_callback

\* A job's callbacks of every kind, from construction on
InitSpecWrapup ==
    /\ \E k \in {"job", "inventory_update"} : NewCallback(k, 1)
    /\ QuietPolicy /\ QuietHeartbeat

SpecWrapup == InitSpecWrapup /\ [][NextWrapup]_vars

SpecFinalize == InitSpecFinalize /\ [][NextFinalize]_vars

NextLinks == \E costs \in CostSets : InspectLinks(costs)

\* A store whose links are in every state, its instances being at rest
InitSpecLinks ==
    /\ QuietCallback /\ QuietPolicy
    /\ hb_clock = HbStart
    /\ settings = [DEBUG |-> FALSE, AWX_AUTO_DEPROVISION_INSTANCES |-> FALSE]
    /\ instances = [n \in Nodes |-> InstanceRow("hybrid", "ready", HbStart, "1", 1)]
    /\ jobs = [j \in Jobs |-> JobRow(j, FALSE)]
    /\ link_state \in [MeshLinks -> LinkStates]
    /\ InitHeartbeatTask({})
    /\ reap_calls = << >>
    /\ event_queries = {}
    /\ inspected = NoInspection
    /\ receptor = NoReaping

SpecLinks == InitSpecLinks /\ [][NextLinks]_vars

\* Jobs that run, each with its work unit, and jobs that have not started and
\* have none; receptor lists any of the units; the two settings take every value
InitSpecWorkunitReaper ==
    /\ QuietCallback /\ QuietPolicy
    /\ hb_clock = HbStart
    /\ settings = [DEBUG |-> FALSE, AWX_AUTO_DEPROVISION_INSTANCES |-> FALSE]
    /\ instances = [n \in Nodes |-> InstanceRow("hybrid", "ready", HbStart, "1", 1)]
    /\ jobs = [j \in Jobs |-> JobRow(j, FALSE)]
    /\ link_state = [l \in Links |-> "adding"]
    /\ InitHeartbeatTask({})
    /\ reap_calls = << >>
    /\ event_queries = {}
    /\ inspected = NoInspection
    /\ \E release, keep \in BOOLEAN, list \in SUBSET WorkUnits :
       \E started \in SUBSET UnitJobs :
          receptor = [RECEPTOR_RELEASE_WORK |-> release,
                      RECEPTOR_KEEP_WORK_ON_ERROR |-> keep,
                      unified_jobs |-> [j \in UnitJobs |->
                                          IF j \in started
                                          THEN [status |-> "running", work_unit_id |-> j]
                                          ELSE [status |-> "pending", work_unit_id |-> NoUnit]],
                      work_list |-> list,
                      commands |-> << >>,
                      runs |-> 0]

SpecWorkunitReaper == InitSpecWorkunitReaper /\ [][NextWorkunitReaper]_vars

\* The events of a burst: output, and no type that is always emitted
BurstEvents ==
    {e \in Events : e.event \notin MINIMAL_EVENTS \cup {"keepalive"} /\ ~e.stdout_empty
                     /\ e.artifact_data = ""}

\* Time is counted from the first event of the burst
NextBurst ==
    \/ \E ev \in BurstEvents : event_handler(ev)
    \/ event_ct >= 1 /\ TickCallback

\* A fresh callback of every kind and rate that is given a burst of events
InitSpecBurst == InitCallback /\ QuietPolicy /\ QuietHeartbeat

SpecBurst == InitSpecBurst /\ [][NextBurst]_vars

\* The events that carry artifact data
ArtifactEvents == {e \in Events : e.artifact_data # "" /\ e.end_line = 0}

NextArtifacts ==
    \/ \E ev \in ArtifactEvents : event_handler(ev)
    \/ \E dir \in ArtifactDirs : artifacts_handler(dir)

\* A job's callbacks with no throttle: events that stage artifacts, and the
\* artifact directory
InitSpecArtifacts ==
    /\ \E k \in {"job", "project_update"} : NewCallback(k, 0)
    /\ QuietPolicy /\ QuietHeartbeat

SpecArtifacts == InitSpecArtifacts /\ [][NextArtifacts]_vars

-----------------------------------------------------------------------------
(* Claims about RunnerCallback, checked under SpecCallback *)

\* How many non-MINIMAL events were forwarded to the live channel in the closed
\* one-second interval that starts at the i-th recorded emission
EmittedWithin(i) ==
    Cardinality({j \in 1..Len(sent) : sent[j] >= sent[i] /\ sent[j] <= sent[i] + TicksPerSec})

\* C1 (as stated): in every one-second interval at most N = maxlen events that are
\* not in MINIMAL_EVENTS are forwarded without skip_websocket_message.  (Stated
\* for N >= 1: with N = 0 the deque stays empty and nothing is throttled at all.)
C1_AtMostNPerSecond ==
    maxlen >= 1 => \A i \in 1..Len(sent) : EmittedWithin(i) <= maxlen

\* C1 (amended): for N >= 1, in every one-second interval at most 2N - 1 events
\* that are not in MINIMAL_EVENTS are forwarded without skip_websocket_message.
C1_AtMostTwoNMinusOnePerSecond ==
    maxlen >= 1 => \A i \in 1..Len(sent) : EmittedWithin(i) <= 2 * maxlen - 1

\* C1 witness: with N >= 2 an interval of one second holds 2N - 1 live emissions
\* and the throttle has just suppressed an event.
C1_Witness ==
    /\ maxlen >= 2
    /\ \E i \in 1..Len(sent) : EmittedWithin(i) = 2 * maxlen - 1
    /\ last.outcome = "returned" /\ last.skip

\* C2 (as stated): every event given to event_handler whose type is not
\* 'keepalive' is handed to dispatcher.dispatch exactly once by that call.
C2_EveryEventDispatchedOnce ==
    (last.outcome # "none" /\ last.event # "keepalive") => last.dispatched = 1

\* C12 (as stated): event_handler never raises for a malformed event, in the
\* base callback and in every variant; the event is skipped and the call
\* returns.
C12_EventHandlerNeverRaises ==
    last.outcome \in {"none", "ignored", "returned"}

\* C38 (as stated): a keepalive event given to event_handler changes nothing,
\* in the base callback and in every variant: the event count, the timing
\* window, the deferred fields, the wrap-up flag and end_line stay as they
\* were, and nothing is dispatched.
C38_KeepaliveChangesNothing ==
    [][\A ev \in StreamEvents :
          (ev.event = "keepalive" /\ event_handler(ev)) =>
              UNCHANGED <<event_ct, recent_event_timings, extra_update_fields,
                          wrapup_event_dispatched, end_line, dispatch_ct>>]_vars

\* C16: an event whose type is in MINIMAL_EVENTS is never marked
\* skip_websocket_message, whatever the timing window holds.
C16_MinimalEventNeverSkipped ==
    last.event \in MINIMAL_EVENTS => ~last.skip

\* A playbook_on_stats event has just gone to the live channel although the
\* window was full of timestamps of this very moment, after more events than
\* the window holds
C16_Witness ==
    /\ last.event = "playbook_on_stats" /\ last.outcome = "returned" /\ ~last.skip
    /\ maxlen >= 2 /\ Len(recent_event_timings) = maxlen
    /\ \A i \in 1..maxlen : recent_event_timings[i] = cpu_clock
    /\ event_ct > maxlen + 1

\* C17 (as stated): an event that is not always emitted, has stdout == '' and
\* start_line == end_line is marked skip_websocket_message and adds no
\* timestamp to the window, whatever the window holds, the empty window of a
\* fresh callback included.
C17_SilentEventAlwaysSkipped ==
    [][\A ev \in Events :
          (/\ event_handler(ev)
           /\ ev.event \notin MINIMAL_EVENTS \cup {"keepalive"}
           /\ ev.stdout_empty /\ ev.has_lines /\ ev.start_line = ev.end_line)
              => last'.skip /\ recent_event_timings' = recent_event_timings]_vars

-----------------------------------------------------------------------------
(* Claims about a burst of events on a fresh callback, checked under SpecBurst.
   There event_ct is the number k of events dispatched so far, sent holds the
   times of those forwarded without skip_websocket_message, and cpu_clock is
   the time since the first event. *)

\* The burst so far has lasted less than 1/N s
BurstWithinGap == cpu_clock * maxlen < TicksPerSec

\* The base handler, which the variants other than the inventory update's call
\* with the event as it came
BaseHandler == kind # "inventory_update"

-----------------------------------------------------------------------------
(* Claims about the end of a job's stream and the deferred fields, checked
   under SpecFinalize *)

\* C23: the EOF event carries final_counter equal to the number of events that
\* event_handler dispatched before it; get_delayed_update_fields reports the
\* same number as emitted_events; a keepalive is neither dispatched nor counted.
C23_FinalCounterIsDispatchCount ==
    /\ [](cb_pc = "finished" => final_counter = dispatch_ct - 1)
    /\ []((last.event = "get_delayed_update_fields" /\ cb_pc = "finished") =>
              extra_update_fields["emitted_events"] = final_counter)
    /\ [][\A ev \in FinalizeEvents :
              (event_handler(ev) /\ ev.event = "keepalive")
                  => event_ct' = event_ct /\ dispatch_ct' = dispatch_ct]_vars

\* The stream of an inventory update has ended after two dispatched events and
\* the terminal save reports two emitted events
C23_Witness ==
    /\ kind = "inventory_update" /\ cb_pc = "finished"
    /\ final_counter = 2 /\ dispatch_ct = 3
    /\ last.event = "get_delayed_update_fields"
    /\ extra_update_fields["emitted_events"] = 2

\* C39: wrapup_event_dispatched is false at construction; a step makes it true
\* exactly when event_handler handles an event of the job's wrap-up type
\* (playbook_on_stats for a job) or finished_callback runs for a job whose
\* wrap-up type is EOF; no event, status or artifact callback resets it.
C39_WrapupFlagSetOnceByWrapupEvent ==
    /\ ~wrapup_event_dispatched
    /\ [][wrapup_event_dispatched' =
             \/ wrapup_event_dispatched
             \/ \E ev \in FinalizeEvents :
                   /\ event_handler(ev) /\ last'.outcome = "returned"
                   /\ kind = "job" /\ ev.event = "playbook_on_stats"
             \/ finished_callback /\ kind # "job"
         ]_vars

\* A job's playbook_on_stats event has set the flag, and the run's end, an
\* error status and the artifact callback that came after it have left it set
C39_Witness ==
    /\ kind = "job" /\ wrapup_event_dispatched
    /\ cb_pc = "finished" /\ artifacts_processed
    /\ last.event = "error"

\* C24 (as stated): when the staged result_traceback holds the stale-runner
\* signature, the fields get_delayed_update_fields returns have
\* result_traceback replaced by ANSIBLE_RUNNER_NEEDS_UPDATE_MESSAGE: the raw
\* text is not kept.
C24_StaleRunnerTextReplaced ==
    (last.event = "get_delayed_update_fields"
     /\ "result_traceback" \in DOMAIN extra_update_fields) =>
        ~IsInfix(StaleRunnerSignature, extra_update_fields["result_traceback"])

\* The messages a field holds, one per line
RECURSIVE Lines(_)
Lines(text) ==
    IF \A i \in 1..Len(text) : text[i] # NewLine THEN {text}
    ELSE LET i == CHOOSE k \in 1..Len(text) :
                      text[k] = NewLine /\ \A m \in 1..(k - 1) : text[m] # NewLine
         IN  {SubSeq(text, 1, i - 1)} \cup Lines(SubSeq(text, i + 1, Len(text)))

MergedKeys == {"result_traceback", "job_explanation"}

\* C25 (as stated): for job_explanation and result_traceback, a message given
\* for a key already staged is skipped only if that same message was staged
\* before.
C25_SkipsOnlySameMessage ==
    [][\A status_data \in StatusData : \A key \in MergedKeys :
          (/\ status_data.status = "error" /\ status_data[key] # NoText
           /\ last'.event = "error" /\ status_handler(status_data)
           /\ key \in DOMAIN extra_update_fields
           /\ extra_update_fields'[key] = extra_update_fields[key])
              => status_data[key] \in Lines(extra_update_fields[key])]_vars

\* C25 (amended): a message given for a staged key is skipped if the field
\* contains its text anywhere, and appended after a newline otherwise; a staged
\* field only grows at its end, so every message given stays part of it.
C25_SkipsContainedText ==
    [][/\ \A key \in MergedKeys \cap DOMAIN extra_update_fields :
              /\ key \in DOMAIN extra_update_fields'
              /\ Len(extra_update_fields[key]) <= Len(extra_update_fields'[key])
              /\ SubSeq(extra_update_fields'[key], 1, Len(extra_update_fields[key]))
                    = extra_update_fields[key]
       /\ \A status_data \in StatusData : \A key \in MergedKeys :
              (/\ status_data.status = "error" /\ status_data[key] # NoText
               /\ last'.event = "error" /\ status_handler(status_data))
                  => /\ IsInfix(status_data[key], extra_update_fields'[key])
                     /\ extra_update_fields'[key] =
                            IF key \notin DOMAIN extra_update_fields THEN status_data[key]
                            ELSE IF IsInfix(status_data[key], extra_update_fields[key])
                            THEN extra_update_fields[key]
                            ELSE extra_update_fields[key] \o <<NewLine>> \o status_data[key]
      ]_vars

\* A second traceback that contains the first has been appended to it
C25_Witness ==
    /\ last.event = "error"
    /\ "result_traceback" \in DOMAIN extra_update_fields
    /\ extra_update_fields["result_traceback"] = <<"a", NewLine, "a", "b">>

-----------------------------------------------------------------------------
(* Claims about artifacts_handler, checked under SpecArtifacts *)

\* C13 (as stated): whatever the artifact directory holds, artifacts_handler
\* returns without raising and leaves artifacts_processed = True.
C13_ArtifactsAlwaysProcessed ==
    artifacts_last.outcome # "none" =>
        artifacts_last.outcome = "returned" /\ artifacts_processed

\* C14: when the side-channel file is absent, the feature flag is disabled, or
\* the file cannot be opened or parsed, artifacts_handler leaves
\* extra_update_fields exactly as it found it.
C14_NoFileNoStagedField ==
    [][\A dir \in ArtifactDirs :
          (artifacts_handler(dir) /\ (~dir.flag \/ dir.file # "parsed"))
              => extra_update_fields' = extra_update_fields]_vars

\* artifacts_handler has returned for a file that holds no JSON, with the flag
\* enabled, on a callback that had staged artifacts before, and they are what
\* is staged still
C14_Witness ==
    /\ artifacts_last.outcome = "returned"
    /\ artifacts_last.dir.flag /\ artifacts_last.dir.file = "unparseable"
    /\ "artifacts" \in DOMAIN artifacts_last.before
    /\ extra_update_fields = artifacts_last.before
    /\ artifacts_processed

-----------------------------------------------------------------------------
(* Claims about apply_cluster_membership_policies, checked under SpecPolicy
   and SpecMembership (the algorithm) and SpecPolicyLock (the lock) *)

C4_NoHopInAnyGroup ==
    pol_runs >= 1 => \A g \in Groups : \A n \in ig_instances[g] : node_type[n] # "hop"

\* C4 (amended): once a run has completed, no hop node is a member of any group
\* that is not a container group.
C4_NoHopInPolicyGroups ==
    pol_runs >= 1 =>
        \A g \in Groups : ~is_container_group[g] =>
            \A n \in ig_instances[g] : node_type[n] # "hop"

\* C4 witness: a run has removed a hop node that was a member of a group before.
C4_Witness ==
    /\ pol_runs >= 1
    /\ \E g \in Groups : \E n \in last_removed[g] : node_type[n] = "hop"

\* C8 (as stated): a call made while another process holds cluster_policy_lock
\* returns at once, without computing or applying any membership.
C8_ContendedCallNeverRuns ==
    \A p \in DOMAIN pol_pc : pol_contended[p] => pol_pc[p] # "locked"

\* C8 (amended): a call made while another process holds cluster_policy_lock
\* blocks; whoever computes and applies membership holds the lock, so no two
\* calls do so at the same time and a blocked call does so only after release.
C8_RunsOnlyUnderLock ==
    \A p \in DOMAIN pol_pc :
        /\ pol_pc[p] = "locked" => policy_lock = p
        /\ pol_pc[p] = "waiting" => policy_lock \notin {0, p} \/ ENABLED PolicyAcquire(p)

\* C8 witness: a call that found the lock held is computing under the lock while
\* another call is blocked.
C8_Witness ==
    \E p, q \in DOMAIN pol_pc :
        /\ pol_contended[p] /\ pol_pc[p] = "locked" /\ policy_lock = p
        /\ pol_pc[q] = "waiting"

\* C21: a run never adds an instance to nor removes one from a group with
\* is_container_group: its membership is the same before and after every step.
C21_ContainerGroupUntouched ==
    [][\A g \in Groups : is_container_group[g] => ig_instances'[g] = ig_instances[g]]_vars

\* A run has changed the control plane group and left alone the container
\* group "default", whose members are not the ones the run computed for it
C21_Witness ==
    /\ pol_runs = 1 /\ first_changed
    /\ is_container_group["default"]
    /\ ig_instances["default"] = Nodes
    /\ Computed(group_order)["default"] # Nodes
    /\ ig_instances["controlplane"] = Computed(group_order)["controlplane"]

\* C27 (as stated): whatever the policy lists, minimums and percentages, the
\* membership a run computes has no execution node in the control plane group
\* and no control node in any other group.
C27_NoExcludedTypeInGroup ==
    pol_runs >= 1 =>
        \A g \in Groups : \A n \in Computed(group_order)[g] : node_type[n] # exclude_type(g)

\* The policy-managed nodes the passes may add to group g
Eligible(g) ==
    {n \in Nodes : managed_by_policy[n] /\ node_type[n] \notin {"hop", exclude_type(g)}}

\* C28: after the minimum pass every group has at least policy_instance_minimum
\* members, or every policy-managed node whose type the group does not exclude
\* is a member of it.
C28_MinimumMetOrPoolExhausted ==
    pol_runs = 1 =>
        LET m == AfterMinimum(group_order).inst
        IN  \A g \in Groups :
                \/ Len(m[g]) >= policy_instance_minimum[g]
                \/ Eligible(g) \subseteq Range(m[g])

\* With a minimum of two for both groups, the minimum pass brought the group
\* 'default' to two members and left the control plane group at one, every
\* eligible node being in it
C28_Witness ==
    /\ pol_runs = 1
    /\ policy_instance_minimum = [g \in Groups |-> 2]
    /\ policy_instance_list = [g \in Groups |-> << >>]
    /\ LET m == AfterMinimum(group_order).inst
       IN  /\ Len(m["default"]) = 2
           /\ Len(m["controlplane"]) = 1
           /\ Eligible("controlplane") = Range(m["controlplane"])
           /\ Range(m["controlplane"]) \subseteq ig_instances["controlplane"]

\* C29: after the percentage pass every group with a non-empty eligible pool
\* has 100 * |members| / pool >= policy_instance_percentage, or every eligible
\* node is a member; and each node the pass added was added to a group that
\* was below its percentage then.
C29_PercentageMetOrPoolExhausted ==
    pol_runs = 1 =>
        LET m == AfterMinimum(group_order).inst
            final == AfterPercentage(group_order)
        IN  \A g \in Groups :
                LET pool == candidate_pool_ct(g, actual_instances)
                IN  pool # 0 =>
                      /\ \/ 100 * Len(final[g]) >= policy_instance_percentage[g] * pool
                         \/ Eligible(g) \subseteq Range(final[g])
                      /\ \A k \in (Len(m[g]) + 1)..Len(final[g]) :
                            100 * (k - 1) < policy_instance_percentage[g] * pool

\* The group 'default' asks for half of a pool of two: the percentage pass
\* added one node to the empty group and stopped
C29_Witness ==
    /\ pol_runs = 1
    /\ policy_instance_percentage["default"] = 50
    /\ candidate_pool_ct("default", actual_instances) = 2
    /\ AfterMinimum(group_order).inst["default"] = << >>
    /\ Len(AfterPercentage(group_order)["default"]) = 1
    /\ Cardinality(ig_instances["default"]) = 1

\* C30: a run leaves every group that is not a container group with exactly
\* the members it computed, writing the differences of all groups in one step
\* (the transaction): what it adds and removes is what was missing and what was
\* there in excess.  When what it computes is what every group had, it writes
\* nothing.  No other step changes a membership.
C30_StoredEqualsComputed ==
    [][/\ \A p \in DOMAIN pol_pc :
             (pol_pc[p] = "locked" /\ pol_pc'[p] = "idle") =>
                 LET computed == Computed(group_order)
                 IN  /\ \A g \in Groups :
                           ~is_container_group[g] =>
                               /\ ig_instances'[g] = computed[g]
                               /\ last_added'[g] = computed[g] \ ig_instances[g]
                               /\ last_removed'[g] = ig_instances[g] \ computed[g]
                     /\ (\A g \in Groups : computed[g] = ig_instances[g]) =>
                           /\ ig_instances' = ig_instances
                           /\ \A g \in Groups : last_added'[g] = {} /\ last_removed'[g] = {}
       /\ ig_instances' # ig_instances =>
             \E p \in DOMAIN pol_pc : pol_pc[p] = "locked" /\ pol_pc'[p] = "idle"
      ]_vars

\* A first run has added a node to a group and removed another from it, and
\* every group that is not a container group has the members the run computed
C30_Witness ==
    /\ pol_runs = 1
    /\ \E g \in Groups : last_added[g] # {} /\ last_removed[g] # {}
    /\ \A g \in Groups : ~is_container_group[g] => ig_instances[g] = Computed(group_order)[g]

\* C18 (as stated): the membership a run leaves depends on the nodes and the
\* group policies only: it is what the run computes for any order in which the
\* store may return the groups, whatever the membership was before.
C18_SameForEveryGroupOrder ==
    pol_runs >= 1 =>
        \A order \in GroupOrders : \A g \in Groups :
            ~is_container_group[g] => ig_instances[g] = Computed(order)[g]

\* The state of the minimum pass when the first k groups of gs are done
MinimumPassAfter(gs, k) ==
    GroupPass("minimum", actual_instances, SubSeq(gs, 1, k), 1, AfterPolicyList,
              InitialGroupCounts)

\* a comes before b among candidates with the group counts cnt
LessLoaded(cnt, a, b) == cnt[a] < cnt[b] \/ (cnt[a] = cnt[b] /\ a < b)

\* C19: in the minimum pass a group that still needs k nodes gets the k eligible
\* nodes that are not members yet and have the fewest group assignments made
\* so far in this run, ties broken by ascending node id (all of them when fewer
\* than k are eligible); each of them has one assignment more afterwards.
C19_MinimumPicksLeastLoaded ==
    pol_runs = 1 =>
        LET gs == GroupsBySize(group_order, AfterPolicyList) IN
        \A k \in 1..Len(gs) :
            LET g == gs[k]
                before == MinimumPassAfter(gs, k - 1)
                after == MinimumPassAfter(gs, k)
                eligible == {n \in Range(actual_instances) :
                                node_type[n] # exclude_type(g) /\ n \notin Range(before.inst[g])}
                missing == policy_instance_minimum[g] - Len(before.inst[g])
                k_needed == IF missing > 0 THEN missing ELSE 0
                added == Range(after.inst[g]) \ Range(before.inst[g])
            IN  /\ Cardinality(added) = (IF k_needed < Cardinality(eligible)
                                         THEN k_needed ELSE Cardinality(eligible))
                /\ added \subseteq eligible
                /\ \A a \in added, b \in eligible \ added : LessLoaded(before.cnt, a, b)
                /\ \A n \in Nodes :
                      after.cnt[n] = before.cnt[n] + (IF n \in added THEN 1 ELSE 0)
                /\ \A h \in Groups \ {g} : after.inst[h] = before.inst[h]

\* The run gave the group "default", which needed two nodes, the nodes 1 and 3
\* with no assignment, and not node 2 that the minimum pass had put into the
\* control plane group before
C19_Witness ==
    /\ pol_runs = 1
    /\ policy_instance_minimum["default"] = 2 /\ policy_instance_list["default"] = << >>
    /\ policy_instance_percentage["default"] = 0 /\ ~is_container_group["default"]
    /\ LET gs == GroupsBySize(group_order, AfterPolicyList)
       IN  gs[2] = "default" /\ MinimumPassAfter(gs, 1).cnt = [n \in Nodes |-> IF n = 2 THEN 1 ELSE 0]
    /\ ig_instances["default"] = {1, 3}

\* C20: no node id occurs more than once in the instances of a group when the
\* passes are done (they only append, so at no time before): an instance the
\* policy list put into the group is not added again, and the length both tests
\* read is the number of the group's members.
C20_NoNodeTwiceInGroup ==
    pol_runs = 1 =>
        LET final == AfterPercentage(group_order)
        IN  \A g \in Groups :
                /\ Len(final[g]) = Cardinality(Range(final[g]))
                /\ ig_instances[g] = Range(final[g])

\* Node 1 is on the policy list of the control plane group and a candidate of
\* both passes; the run filled the group up to its minimum of two with node 2
C20_Witness ==
    /\ pol_runs = 1
    /\ policy_instance_list["controlplane"] = <<1>>
    /\ managed_by_policy[1] /\ node_type[1] \in {"control", "hybrid"}
    /\ policy_instance_minimum["controlplane"] = 2
    /\ policy_instance_percentage["controlplane"] = 100
    /\ AfterMinimum(group_order).inst["controlplane"] = <<1, 2>>
    /\ 1 \in ig_instances["controlplane"] /\ 2 \in ig_instances["controlplane"]

-----------------------------------------------------------------------------
(* Claims about cluster_node_heartbeat, checked under SpecHeartbeat and
   SpecHeartbeatRace *)

\* The nodes that the lost-node loop of p's cycle has reaped, marked offline or deleted
HandledNodes(p) ==
    cycle[p].reaped \cup cycle[p].reaped_waiting \cup cycle[p].offlined \cup cycle[p].deleted

\* p's cycle has ended and had come to the version check
ReachedVersionCheck(p) ==
    /\ hb_pc[p] = "done"
    /\ \/ cycle[p].outcome \in {"shutdown", "completed"}
       \/ cycle[p].outcome = "raised" /\ cycle[p].local_reap

\* p's cycle has ended and had come to the lost-node loop
ReachedLostLoop(p) ==
    /\ hb_pc[p] = "done"
    /\ \/ cycle[p].outcome = "completed"
       \/ cycle[p].outcome = "raised" /\ cycle[p].local_reap

\* C5 as stated: a cycle of a node whose own last_seen was older than the
\* liveness threshold at its start reaps the jobs of, marks offline and deletes
\* no other instance.
C5_LostSelfHandlesNoNode ==
    \A p \in DOMAIN hb_pc :
        (hb_pc[p] = "done" /\ cycle[p].startup_event) => HandledNodes(p) = {}

\* C5 amended: a cycle of a node whose own last_seen was older than the liveness
\* threshold at its start, and whose capacity after the local health check is
\* not zero, reaps the jobs of, marks offline and deletes no other instance.
C5_RejoiningSelfHandlesNoNode ==
    \A p \in DOMAIN hb_pc :
        (hb_pc[p] = "done" /\ cycle[p].startup_event /\ cycle[p].capacity # 0)
            => HandledNodes(p) = {}

\* A lost node with capacity has rejoined in a cycle that saw a lost node
C5_Witness ==
    \E p \in DOMAIN hb_pc :
        /\ hb_pc[p] = "done" /\ cycle[p].startup_event /\ cycle[p].capacity # 0
        /\ cycle[p].outcome = "rejoined"
        /\ cycle[p].lost # {}

C7_ContendedCycleSkipped ==
    /\ \A p \in DOMAIN hb_pc :
          cycle[p].contended =>
              /\ ~cycle[p].polled /\ cycle[p].links = {} /\ cycle[p].seen = {}
              /\ cycle[p].health_checks = {} /\ HandledNodes(p) = {} /\ ~cycle[p].local_reap
    /\ Cardinality({p \in DOMAIN hb_pc : hb_pc[p] = "inspecting"}) <= 1

C26_DbErrorDoesNotAbortCycle ==
    \A p \in DOMAIN hb_pc :
        (hb_pc[p] = "done" /\ cycle[p].db_errors # {}) =>
            /\ ReachedLostLoop(p)
            /\ cycle[p].reaped = cycle[p].lost
            /\ cycle[p].reaped_waiting = cycle[p].lost
            /\ \A n \in cycle[p].lost \ cycle[p].db_errors :
                  IF settings.AWX_AUTO_DEPROVISION_INSTANCES
                     /\ instance_list[p][n].node_type = "control"
                  THEN n \in cycle[p].deleted
                  ELSE instance_list[p][n].node_state = "ready" => n \in cycle[p].offlined
            /\ cycle[p].local_reap = cycle[p].worker_tasks.given

\* Nodes 1 and 2 have both found node 3 lost.  The cycle of node 1 met a
\* database error at node 2 and went on to mark node 3 offline; the cycle of
\* node 2 met one at node 3; both ran their local reap pass.
C26_Witness ==
    /\ hb_pc[1] = "done" /\ hb_pc[2] = "done"
    /\ cycle[1].lost = {2, 3} /\ 3 \in cycle[2].lost
    /\ cycle[1].db_errors = {2} /\ 3 \in cycle[1].offlined
    /\ 3 \in cycle[2].db_errors
    /\ cycle[1].local_reap /\ cycle[2].local_reap

\* C31 (as stated): the advertisement processing of
\* inspect_execution_and_hop_nodes never lowers the stored last_seen of a node,
\* also when several nodes run their heartbeats at the same time.
C31_LastSeenNeverDecreases ==
    [][\A p \in DOMAIN hb_pc :
          (hb_pc[p] = "inspecting" /\ hb_pc'[p] # "inspecting") =>
              \A n \in Nodes :
                  (instances[n].present /\ instances'[n].present) =>
                      instances'[n].last_seen >= instances[n].last_seen]_vars

\* The heartbeat of node p dispatches execution_node_health_check for node n in
\* this step, n being ready and enabled with capacity 0 in the instances it loaded
DispatchesRemediation(p, n) ==
    /\ hb_pc[p] = "inspecting" /\ hb_pc'[p] # "inspecting"
    /\ n \in cycle'[p].health_checks
    /\ instance_list[p][n].node_state = "ready"
    /\ instance_list[p][n].capacity = 0 /\ instance_list[p][n].enabled

\* C32 (as stated): for an enabled execution node in ready state with capacity
\* 0, two dispatches of execution_node_health_check are at least
\* EXECUTION_NODE_REMEDIATION_CHECKS seconds apart, whichever nodes' heartbeats
\* make them and however late the dispatched task runs.  The cycle of q that
\* dispatched before began at nowtime[q], so its dispatch is no earlier.
C32_OneDispatchPerInterval ==
    [][\A p, q \in DOMAIN hb_pc : \A n \in Nodes :
          (/\ p # q
           /\ DispatchesRemediation(p, n)
           /\ n \in cycle[q].health_checks
           /\ instance_list[q][n].node_state = "ready" /\ instance_list[q][n].capacity = 0)
              => hb_clock - nowtime[q] >= EXECUTION_NODE_REMEDIATION_CHECKS]_vars

\* C33: inspect_execution_and_hop_nodes dispatches execution_node_health_check
\* for execution nodes only, never for a control, hybrid or hop node nor for a
\* hostname that is no known instance, and it changes last_seen of no control
\* or hybrid node.
C33_HealthCheckForExecutionNodesOnly ==
    [][\A p \in DOMAIN hb_pc :
          (hb_pc[p] = "inspecting" /\ hb_pc'[p] # "inspecting") =>
              /\ \A n \in cycle'[p].health_checks :
                    /\ n \in DOMAIN instance_list[p]
                    /\ instance_list[p][n].node_type = "execution"
              /\ UnknownHost \notin cycle'[p].health_checks
              /\ \A n \in Nodes :
                    instances[n].node_type \in {"control", "hybrid"} =>
                        /\ instances'[n].last_seen = instances[n].last_seen
                        /\ n \notin cycle'[p].seen]_vars

\* An inspection has found the execution node 3 back on the mesh and has
\* dispatched its health check
C33_Witness ==
    \E p \in DOMAIN hb_pc :
        /\ hb_pc[p] = "inspected"
        /\ cycle[p].health_checks = {3}
        /\ instance_list[p][3].node_type = "execution"
        /\ instances[2].node_type = "hybrid"

\* C34: the version check of cluster_node_heartbeat precedes all reaping: the
\* cycle that shuts the node down for a newer version has reaped, deleted and
\* marked offline no lost node, and its local reap pass has not run; no job and
\* no row of another node has changed.
C34_VersionCheckBeforeReaping ==
    [][\A p \in DOMAIN hb_pc :
          (hb_pc[p] = "inspected" /\ cycle'[p].outcome = "shutdown") =>
              /\ cycle'[p].reaped = {} /\ cycle'[p].reaped_waiting = {}
              /\ cycle'[p].deleted = {} /\ cycle'[p].offlined = {}
              /\ cycle'[p].db_errors = {}
              /\ ~cycle'[p].local_reap /\ ~cycle'[p].local_reap_waiting
              /\ jobs' = jobs
              /\ \A n \in Nodes \ {CLUSTER_HOST_ID(p)} : instances'[n] = instances[n]]_vars

\* A cycle that found a lost node has shut the node down for a newer version
\* of a live peer, the lost node's row being as it was
C34_Witness ==
    \E p \in DOMAIN hb_pc :
        /\ hb_pc[p] = "done" /\ cycle[p].outcome = "shutdown" /\ cycle[p].stopped
        /\ \E n \in cycle[p].lost :
              /\ instance_list[p][n].node_state = "ready"
              /\ instances[n].node_state = "ready"

\* C35: the nodes a cycle of cluster_node_heartbeat puts in its lost set, and
\* so the only ones its lost-node loop reaps, deletes or marks offline, are
\* nodes other than itself whose last_seen, as the cycle holds it after the
\* advertisements, is older than the liveness threshold at the cycle's nowtime.
C35_OnlyStalePeersAreLost ==
    \A p \in DOMAIN hb_pc :
        hb_pc[p] = "done" =>
            /\ \A n \in cycle[p].lost :
                  /\ n # CLUSTER_HOST_ID(p)
                  /\ n \in DOMAIN instance_list[p]
                  /\ instance_list[p][n].last_seen < nowtime[p] - LivenessThreshold
            /\ cycle[p].reaped \cup cycle[p].reaped_waiting \cup cycle[p].deleted
                   \cup cycle[p].offlined \cup cycle[p].db_errors \subseteq cycle[p].lost

\* A cycle has marked a lost node offline and has left alone a peer whose
\* advertisement made its last_seen fresh
C35_Witness ==
    \E p \in DOMAIN hb_pc :
        /\ hb_pc[p] = "done" /\ cycle[p].outcome = "completed"
        /\ cycle[p].offlined # {}
        /\ \E n \in cycle[p].seen : n \notin cycle[p].lost /\ n # CLUSTER_HOST_ID(p)

\* C36: when the node's own row is not among the loaded instances, the cycle
\* registers the node again, checks its health and goes on if
\* AWX_AUTO_DEPROVISION_INSTANCES is on; if it is off, it raises 'Cluster Host
\* Not Found' and has reaped, deleted and marked offline nobody: no row and no
\* job has changed.
C36_MissingHostRegisteredOrRaised ==
    [][\A p \in DOMAIN hb_pc :
          (hb_pc[p] = "inspected" /\ hb_pc'[p] = "done"
           /\ CLUSTER_HOST_ID(p) \notin DOMAIN instance_list[p]) =>
              IF settings.AWX_AUTO_DEPROVISION_INSTANCES
              THEN /\ cycle'[p].outcome \in {"completed", "shutdown", "raised"}
                   /\ cycle'[p].outcome = "raised" => cycle'[p].local_reap
                   /\ instances'[CLUSTER_HOST_ID(p)].present
                   /\ instances'[CLUSTER_HOST_ID(p)].last_health_check = hb_clock
              ELSE /\ cycle'[p].outcome = "host_not_found"
                   /\ instances' = instances /\ jobs' = jobs
                   /\ cycle'[p].reaped = {} /\ cycle'[p].reaped_waiting = {}
                   /\ cycle'[p].deleted = {} /\ cycle'[p].offlined = {}
                   /\ ~cycle'[p].local_reap]_vars

\* A node without a row has been registered again by its heartbeat, which went
\* on to reap a lost peer
C36_Witness ==
    \E p \in DOMAIN hb_pc :
        /\ hb_pc[p] = "done" /\ cycle[p].outcome = "completed"
        /\ CLUSTER_HOST_ID(p) \notin DOMAIN instance_list[p]
        /\ instances[CLUSTER_HOST_ID(p)].present
        /\ cycle[p].reaped # {}

\* C37 (as stated): for every worker_tasks that is given, a mapping without
\* workers included, the local reap pass ends without raising, and it calls
\* reap_waiting for this node exactly when no worker has more than one task.
C37_LocalReapNeverRaises ==
    \A p \in DOMAIN hb_pc :
        (hb_pc[p] = "done" /\ cycle[p].local_reap) =>
            /\ cycle[p].outcome = "completed"
            /\ cycle[p].local_reap_waiting =
                  (\A i \in DOMAIN cycle[p].worker_tasks.lists :
                       Len(cycle[p].worker_tasks.lists[i]) <= 1)

\* C10: the local reap pass fails no job whose id is in a list of worker_tasks,
\* and it runs, and fails jobs, only when worker_tasks is given.
C10_LocalReapSparesActiveTasks ==
    \A p \in DOMAIN hb_pc :
        /\ (cycle[p].local_reap \/ cycle[p].local_failed # {}) => cycle[p].worker_tasks.given
        /\ \A i \in DOMAIN cycle[p].worker_tasks.lists :
              \A k \in DOMAIN cycle[p].worker_tasks.lists[i] :
                  cycle[p].worker_tasks.lists[i][k] \notin cycle[p].local_failed

\* A local reap pass has failed a job of this node and spared a running one
\* that a worker, not the first, reported
C10_Witness ==
    \E p \in DOMAIN hb_pc :
        /\ hb_pc[p] = "done" /\ cycle[p].local_reap /\ cycle[p].local_failed # {}
        /\ \E i \in DOMAIN cycle[p].worker_tasks.lists :
              /\ i > 1
              /\ \E k \in DOMAIN cycle[p].worker_tasks.lists[i] :
                    LET j == cycle[p].worker_tasks.lists[i][k]
                    IN  /\ jobs[j].node = CLUSTER_HOST_ID(p)
                        /\ jobs[j].status = "running"
                        /\ jobs[j].started < nowtime[p]

-----------------------------------------------------------------------------
(* Claims about the reaper, checked under SpecReaper *)

\* C11: when the reaper is called again for a node with the same inputs, the
\* second call changes no job and emits no notification; every job a call
\* failed has been failed, and notified, exactly once.
C11_SecondReapIsNoOp ==
    /\ \A i, k \in DOMAIN reap_calls :
          (i < k /\ reap_calls[i].node = reap_calls[k].node) => reap_calls[k].changed = {}
    /\ \A j \in Jobs : jobs[j].notifications <= 1
    /\ \A i \in DOMAIN reap_calls : \A j \in reap_calls[i].failed :
          jobs[j].status = "failed" /\ jobs[j].notifications = 1

\* Two nodes have reaped the same lost node, and the first call failed a
\* running and a waiting job of it
C11_Witness ==
    /\ Len(reap_calls) = 2
    /\ reap_calls[1].node = reap_calls[2].node
    /\ reap_calls[1].by # reap_calls[2].by
    /\ \E j1, j2 \in reap_calls[1].failed : j1 # j2
    /\ reap_calls[2].changed = {}

-----------------------------------------------------------------------------
(* Claims about inspect_established_receptor_connections, checked under
   SpecLinks *)

\* C22: the inspection changes a link's state only from adding to established,
\* and only when the known connection costs hold an entry from the link's
\* source to its target; established and removing links are never changed.
C22_OnlyAddingToEstablished ==
    inspected.calls > 0 =>
        \A l \in DOMAIN link_state :
            /\ link_state[l] # inspected.before[l] =>
                  /\ inspected.before[l] = "adding" /\ link_state[l] = "established"
                  /\ l \in inspected.costs
            /\ inspected.before[l] \in {"established", "removing"} =>
                  link_state[l] = inspected.before[l]

\* The costs held entries for an adding link, for the reverse of another adding
\* link and for a removing link: the first got established, the others stayed
C22_Witness ==
    /\ inspected.calls > 0
    /\ inspected.costs = {<<1, 3>>, <<3, 2>>, <<3, 1>>}
    /\ inspected.before = (<<1, 3>> :> "adding") @@ (<<2, 3>> :> "adding") @@ (<<3, 1>> :> "removing")
    /\ link_state = (<<1, 3>> :> "established") @@ (<<2, 3>> :> "adding") @@ (<<3, 1>> :> "removing")


\* C40: a run of awx_receptor_workunit_reaper sends no command for the work
\* unit of a job whose status is in ACTIVE_STATES, nor of a job whose status
\* is in ERROR_STATES when RECEPTOR_KEEP_WORK_ON_ERROR is set; it sends no
\* command at all when RECEPTOR_RELEASE_WORK is off; and the "work release"
\* of a job's unit comes straight after the "work cancel" of that unit
C40_ReapsInactiveUnitsCancelFirst ==
    [][receptor'.runs # receptor.runs =>
          LET commands == receptor'.commands
              holders(u) == {j \in UnitJobs : receptor.unified_jobs[j].work_unit_id = u}
          IN  /\ ~receptor.RECEPTOR_RELEASE_WORK => commands = << >>
              /\ \A i \in DOMAIN commands : \A j \in holders(commands[i].unit) :
                    /\ receptor.unified_jobs[j].status \notin ACTIVE_STATES
                    /\ receptor.RECEPTOR_KEEP_WORK_ON_ERROR =>
                          receptor.unified_jobs[j].status \notin ERROR_STATES
              /\ \A i \in DOMAIN commands :
                    (commands[i].op = "work release" /\ holders(commands[i].unit) # {}) =>
                       /\ i > 1
                       /\ commands[i - 1] = [op |-> "work cancel", unit |-> commands[i].unit]]_vars

\* C40: a run has cancelled and released the unit of a job that ended, and
\* has left alone the listed unit of a job that still runs
C40_Witness ==
    /\ receptor.runs > 0
    /\ receptor.RECEPTOR_RELEASE_WORK
    /\ \E j \in UnitJobs :
          /\ receptor.unified_jobs[j].status = "successful"
          /\ \E i \in DOMAIN receptor.commands :
                /\ receptor.commands[i] = [op |-> "work cancel", unit |-> j]
                /\ i + 1 \in DOMAIN receptor.commands
                /\ receptor.commands[i + 1] = [op |-> "work release", unit |-> j]
    /\ \E j \in UnitJobs :
          /\ receptor.unified_jobs[j].status = "running"
          /\ receptor.unified_jobs[j].work_unit_id \in receptor.work_list
====
